---- MODULE Spec2Model ----
(***************************************************************************)
(* Model of the lox bytecode compiler and virtual machine.                 *)
(*                                                                         *)
(* The input of the system is a token sequence (what the scanner yields),  *)
(* the compiler is the family of compile_* operators, translated from      *)
(* compiler.rs, and the virtual machine is a state machine with one action *)
(* per opcode of VM::run (vm.rs).  The recursion of VM::run into itself    *)
(* (Call, Loop) is the sequence `calls` of run invocations.                *)
(*                                                                         *)
(* Conventions: an Option<T> is a sequence, None is <<>> and Some(v) is    *)
(* <<v>>.  Addresses are 0-based as in the source, TLA+ sequences are      *)
(* 1-based, so the word at address a of a chunk s is s[a + 1].             *)
(* A panic of the Rust program (unwrap on None, Vec::remove out of range)  *)
(* is the outcome "Panic": interpret does not return.                      *)
(***************************************************************************)
EXTENDS Integers, Sequences, FiniteSets, TLC

None == <<>>

Some(v) == <<v>>

Unwrap(o) == o[1]

Front(s) == SubSeq(s, 1, Len(s) - 1)

Last(s) == s[Len(s)]

Abs(i) == IF i < 0 THEN 0 - i ELSE i

RECURSIVE Gcd(_, _)
Gcd(a, b) == IF b = 0 THEN a ELSE Gcd(b, a % b)

\* integer quotient truncated toward zero (Rust `/` on integers, `as` casts)
TruncDiv(a, b) ==
  LET q == Abs(a) \div Abs(b)
  IN IF (a < 0) = (b < 0) THEN q ELSE 0 - q

(***************************************************************************)
(* Value (value.rs).  A Number is an f64; the model keeps the values that  *)
(* arise from integer literals exactly, as a reduced fraction n/d with     *)
(* d > 0, the sign of zero in nz, and d = 0 for the non-finite values      *)
(* (n = 1: inf, n = -1: -inf, n = 0: NaN).                                 *)
(***************************************************************************)
Nil == [t |-> "Nil"]

Boolean(b) == [t |-> "Boolean", b |-> b]

String(s) == [t |-> "String", s |-> s]

Function(f) == [t |-> "Function", f |-> f]

Rat(n, d, nz) == [t |-> "Number", n |-> n, d |-> d, nz |-> nz]

Number(i) == Rat(i, 1, FALSE)

NaN == Rat(0, 0, FALSE)

Inf(sign) == Rat(sign, 0, FALSE)

IsFinite(x) == x.d # 0

IsZero(x) == x.d = 1 /\ x.n = 0

Sign(x) == IF x.n < 0 \/ x.nz THEN 0 - 1 ELSE 1

\* the fraction n/d (d # 0) reduced; a zero result takes the sign negzero
Reduce(n, d, negzero) ==
  LET g == Gcd(Abs(n), Abs(d))
      s == IF d < 0 THEN 0 - 1 ELSE 1
  IN IF n = 0 THEN Rat(0, 1, negzero)
     ELSE Rat(s * (n \div g), Abs(d) \div g, FALSE)

get_type(v) == v.t

\* a variant of the negation that leaves the sign as it is
f64_unchanged(x) == x

f64_neg(x) ==
  IF IsZero(x) THEN Rat(0, 1, ~x.nz)
  ELSE Rat(0 - x.n, x.d, FALSE)

f64_add(x, y) ==
  IF IsFinite(x) /\ IsFinite(y)
  THEN Reduce(x.n * y.d + y.n * x.d, x.d * y.d, x.nz /\ y.nz)
  ELSE IF x = NaN \/ y = NaN THEN NaN
  ELSE IF ~IsFinite(x) /\ ~IsFinite(y)
       THEN (IF x.n = y.n THEN x ELSE NaN)
  ELSE IF IsFinite(x) THEN y ELSE x

f64_mul(x, y) ==
  IF IsFinite(x) /\ IsFinite(y)
  THEN Reduce(x.n * y.n, x.d * y.d, Sign(x) * Sign(y) < 0)
  ELSE IF x = NaN \/ y = NaN \/ IsZero(x) \/ IsZero(y) THEN NaN
  ELSE Inf(Sign(x) * Sign(y))

f64_div(x, y) ==
  IF IsFinite(x) /\ IsFinite(y)
  THEN (IF y.n # 0
        THEN Reduce(x.n * y.d, x.d * y.n, Sign(x) * Sign(y) < 0)
        ELSE IF x.n = 0 THEN NaN ELSE Inf(Sign(x) * Sign(y)))
  ELSE IF x = NaN \/ y = NaN THEN NaN
  ELSE IF ~IsFinite(x) /\ ~IsFinite(y) THEN NaN
  ELSE IF IsFinite(x) THEN Rat(0, 1, Sign(x) * Sign(y) < 0)
  ELSE Inf(Sign(x) * Sign(y))

\* f64 `%`: the remainder has the sign of the dividend
f64_rem(x, y) ==
  IF ~IsFinite(x) \/ y = NaN \/ IsZero(y) THEN NaN
  ELSE IF ~IsFinite(y) THEN x
  ELSE LET q == TruncDiv(x.n * y.d, x.d * y.n)
       IN Reduce(x.n * y.d - q * y.n * x.d, x.d * y.d, Sign(x) < 0)

\* f64 comparison: "Less", "Equal", "Greater", or None for NaN
f64_partial_cmp(x, y) ==
  IF x = NaN \/ y = NaN THEN None
  ELSE IF ~IsFinite(x) \/ ~IsFinite(y)
       THEN (IF ~IsFinite(x) /\ ~IsFinite(y)
             THEN Some(IF x.n = y.n THEN "Equal"
                       ELSE IF x.n < y.n THEN "Less" ELSE "Greater")
             ELSE IF ~IsFinite(x)
                  THEN Some(IF x.n < 0 THEN "Less" ELSE "Greater")
                  ELSE Some(IF y.n < 0 THEN "Greater" ELSE "Less"))
  ELSE LET l == x.n * y.d
           r == y.n * x.d
       IN Some(IF l = r THEN "Equal" ELSE IF l < r THEN "Less" ELSE "Greater")

(***************************************************************************)
(* f64::to_string.  An integral value prints as its integer ("5", "-2",    *)
(* "-0"); a non-integral finite value is written here as its reduced       *)
(* fraction, which like the decimal text is different for different        *)
(* values.                                                                 *)
(***************************************************************************)
f64_to_string(x) ==
  IF x = NaN THEN "NaN"
  ELSE IF ~IsFinite(x) THEN (IF x.n < 0 THEN "-inf" ELSE "inf")
  ELSE IF x.nz THEN "-0"
  ELSE IF x.d = 1 THEN ToString(x.n)
  ELSE ToString(x.n) \o "/" \o ToString(x.d)

\* impl Display for Function
function_to_string(f) == f.name \o "/" \o ToString(f.arity)

\* impl From<Value> for String
into_string(v) ==
  CASE v.t = "Nil" -> "nil"
    [] v.t = "String" -> v.s
    [] v.t = "Boolean" -> (IF v.b THEN "true" ELSE "false")
    [] v.t = "Number" -> f64_to_string(v)
    [] v.t = "Function" -> function_to_string(v.f)

\* impl PartialEq for Value
value_eq(x, y) ==
  IF get_type(x) # get_type(y) THEN FALSE
  ELSE into_string(x) = into_string(y)

\* the strings the programs of the model use, in str::partial_cmp order
SortedStrings ==
  <<"", "-", "U", "U-", "a", "b", "global", "inside", "local", "local1",
    "local2", "x", "y">>

StringRank(s) == CHOOSE i \in 1..Len(SortedStrings) : SortedStrings[i] = s

str_partial_cmp(s1, s2) ==
  LET l == StringRank(s1)
      r == StringRank(s2)
  IN Some(IF l = r THEN "Equal" ELSE IF l < r THEN "Less" ELSE "Greater")

\* a variant of partial_cmp under which values of different variants are
\* not ordered
partial_cmp_within_variant(x, y) ==
  IF value_eq(x, y) THEN Some("Equal")
  ELSE IF x.t # y.t THEN None
  ELSE CASE x.t = "Nil" -> Some("Equal")
         [] x.t = "Function" -> None
         [] x.t = "String" -> str_partial_cmp(x.s, y.s)
         [] x.t = "Number" -> f64_partial_cmp(x, y)
         [] x.t = "Boolean" ->
              Some(IF x.b = y.b THEN "Equal"
                   ELSE IF y.b THEN "Less" ELSE "Greater")

\* impl PartialOrd for Value
partial_cmp(x, y) ==
  IF value_eq(x, y) THEN Some("Equal")
  ELSE IF x.t = y.t
       THEN CASE x.t = "Nil" -> Some("Equal")
              [] x.t = "Function" -> None
              [] x.t = "String" -> str_partial_cmp(x.s, y.s)
              [] x.t = "Number" -> f64_partial_cmp(x, y)
              [] x.t = "Boolean" ->
                   Some(IF x.b = y.b THEN "Equal"
                        ELSE IF y.b THEN "Less" ELSE "Greater")
  ELSE CASE x.t = "Nil" -> Some("Less")
         [] y.t = "Nil" -> Some("Greater")
         [] y.t = "Function" -> Some("Less")
         [] x.t = "Function" -> Some("Greater")
         [] y.t = "String" -> Some("Less")
         [] x.t = "String" -> Some("Greater")
         [] y.t = "Number" -> Some("Less")
         [] x.t = "Number" -> Some("Greater")
         [] OTHER -> None

(***************************************************************************)
(* OpCode (op.rs): the words of a code chunk.  `OpCode::X as usize` is the *)
(* position of X in the enum, and From<u8> maps every byte that is not a   *)
(* listed opcode to Invalid.                                               *)
(***************************************************************************)
OpAdd == 0
OpNil == 1
OpNot == 2
OpPop == 3
OpRem == 4
OpCall == 5
OpJump == 6
OpLess == 7
OpLoop == 8
OpEqual == 9
OpConcat == 10
OpDivide == 11
OpNegate == 12
OpReturn == 13
OpGreater == 14
OpGetLocal == 15
OpConstant == 16
OpMultiply == 17
OpNotEqual == 18
OpSetLocal == 19
OpDefGlobal == 20
OpGetGlobal == 21
OpLessEqual == 22
OpSetGlobal == 23
OpClearScope == 24
OpJumpIfFalse == 25
OpGetCaptured == 26
OpMakeClosure == 27
OpSetCaptured == 28
OpGreaterEqual == 29
OpInvalid == 30

\* OpCode::from(current as u8)
OpCodeFrom(word) == IF word % 256 < OpInvalid THEN word % 256 ELSE OpInvalid

\* OpCode::params: the number of operand words declared for an opcode
op_params(op) ==
  CASE op \in {OpConstant, OpGetLocal, OpSetLocal} -> 1
    [] op \in {OpLoop, OpDefGlobal, OpGetGlobal, OpSetGlobal, OpClearScope,
               OpGetCaptured, OpMakeClosure, OpSetCaptured} -> 2
    [] op = OpCall -> 6
    [] OTHER -> 0

\* impl Debug for Function: the offsets at which the walk over the code
\* from offset on decodes an opcode; op_params(op) words are skipped after each
RECURSIVE fmt_offsets(_, _)
fmt_offsets(codes, offset) ==
  IF offset >= Len(codes) THEN {}
  ELSE {offset}
       \cup fmt_offsets(codes,
                        offset + 1 + op_params(OpCodeFrom(codes[offset + 1])))

(***************************************************************************)
(* Chunk (chunk.rs)                                                        *)
(***************************************************************************)
\* a variant of the addition that stores the item in front
chunk_add_in_front(storage, item) == <<item>> \o storage

chunk_add(storage, item) == Append(storage, item)

\* Chunk::add, the address it returns: the length after the push, less one
chunk_add_address(storage, item) == Len(chunk_add(storage, item)) - 1

chunk_size(storage) == Len(storage)

chunk_get(storage, address) ==
  IF address < Len(storage) THEN Some(storage[address + 1]) ELSE None

\* Vec::remove(address) then Vec::insert(address, item); panics when
\* address >= len, which the caller tests with chunk_set_panics
chunk_set(storage, address, item) == [storage EXCEPT ![address + 1] = item]

chunk_set_panics(storage, address) == address >= Len(storage)

(***************************************************************************)
(* Function (function.rs).  captures maps a captured name to               *)
(* [frame, address, value].  The field patched is not program state: it    *)
(* records, for every patch_jump call, the operand address and the code    *)
(* length at the time of the call.                                         *)
(***************************************************************************)
new(name, arity, captured) ==
  [name |-> name, arity |-> arity, is_loop |-> FALSE, codes |-> <<>>,
   has_return |-> Some(FALSE), captures |-> captured, patched |-> {}]

new_main(name) ==
  [name |-> name, arity |-> 0, is_loop |-> FALSE, codes |-> <<>>,
   has_return |-> None, captures |-> <<>>, patched |-> {}]

new_loop(name, arity, captured) ==
  [name |-> name, arity |-> arity, is_loop |-> TRUE, codes |-> <<>>,
   has_return |-> Some(FALSE), captures |-> captured, patched |-> {}]

fn_add_op(f, op) == [f EXCEPT !.codes = chunk_add(@, op)]

\* a variant of add_jump that emits Jump for either kind of jump
fn_add_jump_unconditional(f, if_false) ==
  fn_add_op(fn_add_op(f, OpJump), OpInvalid)

fn_add_jump(f, if_false) ==
  LET f1 == fn_add_op(f, IF if_false THEN OpJumpIfFalse ELSE OpJump)
  IN fn_add_op(f1, OpInvalid)

fn_patch_jump(f, address) ==
  [f EXCEPT !.codes = chunk_set(@, address, chunk_size(f.codes) - address - 1),
            !.patched = @ \cup {<<address, chunk_size(f.codes)>>}]

add_capture(f, name, frame, address) ==
  [f EXCEPT !.captures =
     (name :> [frame |-> frame, address |-> address, value |-> None]) @@ @]

\* a variant of populate_capture that stores nothing
populate_capture_dropped(f, name, value) == f

populate_capture(f, name, value) ==
  IF name \in DOMAIN f.captures
  THEN [f EXCEPT !.captures[name].value = Some(value)]
  ELSE f

get_capture(f, name) ==
  IF name \in DOMAIN f.captures THEN f.captures[name].value ELSE None

(***************************************************************************)
(* Natives (nif.rs): resolve_nif and the arities.                          *)
(***************************************************************************)
NifNames ==
  {"div", "clock", "parse", "print", "is_nil", "type_of", "println",
   "is_number", "is_string", "is_boolean", "is_function"}

resolve_nif(name) == name \in NifNames

nif_arity(name) ==
  CASE name \in {"print", "println"} -> None
    [] name = "div" -> Some(2)
    [] name = "clock" -> Some(0)
    [] OTHER -> Some(1)

(***************************************************************************)
(* The function table, the constant pool and the loop table of the VM, as  *)
(* the compiler and the VM both use them (vm.rs).  The function table is a *)
(* sequence of <<function, scope>>.                                        *)
(***************************************************************************)
Max(S) == CHOOSE x \in S : \A y \in S : y <= x

Min(S) == CHOOSE x \in S : \A y \in S : x <= y

function_exists(fs, scope_depth, name) ==
  \E i \in 1..Len(fs) : fs[i][1].name = name /\ fs[i][2] = scope_depth

get_function_from_functions(fs, name, given_scope) ==
  LET found == {i \in 1..Len(fs) : fs[i][1].name = name /\ fs[i][2] <= given_scope}
  IN IF found = {} THEN None ELSE Some(fs[Max(found)][1])

get_function_from_constants(ks, name) ==
  LET found == {i \in 1..Len(ks) : ks[i].t = "Function" /\ ks[i].f.name = name}
  IN IF found = {} THEN None ELSE Some(ks[Min(found)].f)

resolve_function(fs, ks, name, given_scope) ==
  LET r == get_function_from_functions(fs, name, given_scope)
  IN IF r # None THEN r ELSE get_function_from_constants(ks, name)

clear_scope_functions(fs, given_scope) ==
  SelectSeq(fs, LAMBDA e : e[2] # given_scope)

(***************************************************************************)
(* Compiler (compiler.rs).  The compiler state cs holds the token sequence *)
(* and the position of the scanner in it, the fields of the Compiler       *)
(* struct, and the parts of the VM the compiler writes: the constant pool, *)
(* the function table (vm_functions) and the loop table.  Every compile_*  *)
(* operator maps a compiler state to the compiler state after the method.  *)
(* The scanner yields Eof forever after the last token, so the `None`      *)
(* branches of the source never run.                                       *)
(***************************************************************************)
Token(kind) == [kind |-> kind, value |-> None]

scanner_peek(cs) ==
  IF cs.pos <= Len(cs.tokens) THEN cs.tokens[cs.pos] ELSE Token("Eof")

scanner_next(cs) == [cs EXCEPT !.pos = @ + 1]

push_error(cs, msg) == [cs EXCEPT !.errors = Append(@, msg)]

function(cs) == Last(cs.functions)

locals(cs) == Last(cs.locals)

add_op(cs, op) ==
  [cs EXCEPT !.functions[Len(cs.functions)] = fn_add_op(@, op)]

add_address(cs, address) ==
  [cs EXCEPT !.functions[Len(cs.functions)] = fn_add_op(@, address)]

\* VM::add_constant, then Constant and the address in the current function
add_constant(cs, value) ==
  LET address == chunk_size(cs.constants)
      c1 == [cs EXCEPT !.constants = chunk_add(@, value)]
  IN add_address(add_op(c1, OpConstant), address)

add_jump(cs, if_false) ==
  [cs EXCEPT !.functions[Len(cs.functions)] = fn_add_jump(@, if_false)]

\* the address add_jump returned: the address of the operand word
jump_address(cs) == chunk_size(function(cs).codes) - 1

patch_jump(cs, address) ==
  IF chunk_set_panics(function(cs).codes, address)
  THEN [cs EXCEPT !.panicked = TRUE]
  ELSE [cs EXCEPT !.functions[Len(cs.functions)] = fn_patch_jump(@, address)]

expect(cs, kind) ==
  IF scanner_peek(cs).kind = kind THEN scanner_next(cs)
  ELSE push_error(cs, "unexpected #9")

resolve_local(cs, name) ==
  LET ls == locals(cs)
      found == {i \in 1..Len(ls) : ls[i][1] = name}
  IN IF found = {} THEN None ELSE Some(Max(found) - 1)

\* random 16-character name of a loop body: a name no other loop has
fresh_loop_name(cs) == "loop#" \o ToString(cs.loop_seq)

\* every local of the current function with its slot, as a capture table;
\* the frame is the position of the current function among the functions
\* being compiled
captured_locals(cs) ==
  LET ls == locals(cs)
      names == {ls[i][1] : i \in 1..Len(ls)}
  IN [nm \in names |->
        [frame |-> Len(cs.functions) - 1,
         address |-> Unwrap(resolve_local(cs, nm)),
         value |-> None]]

new_function(cs, name, arity, captured) ==
  [cs EXCEPT !.functions = Append(@, new(name, arity, captured))]

compiler_new_loop(cs, name, arity, captured) ==
  [cs EXCEPT !.functions = Append(@, new_loop(name, arity, captured))]

\* VM::add_function; the address is the index of the new entry
add_function(cs, scope_depth, f) ==
  [cs EXCEPT !.vm_functions = Append(@, <<f, scope_depth>>)]

add_loop(cs, f) == [cs EXCEPT !.loops = (f.name :> f) @@ @]

RECURSIVE invoke(_, _, _)

RECURSIVE compile_loop(_), compile_declaration(_), unwind_loops(_),
          compile_let_by_name(_), compile_let(_), compile_fun(_), param_loop(_, _),
          compile_statement(_, _, _), block_loop(_), compile_if(_),
          compile_while(_), compile_expression(_), expression_loop(_),
          compile_term(_, _), term_loop(_), compile_factor(_, _),
          args_loop(_, _)

\* Compiler::compile, the loop over the declarations
compile_loop(cs) ==
  LET c1 == invoke("compile_declaration", cs, <<>>)
  IN IF c1.panicked \/ c1.diverged \/ scanner_peek(c1).kind = "Eof" THEN c1
     ELSE compile_loop(c1)

\* `return` inside a loop body: close every enclosing loop body
unwind_loops(cs) ==
  LET c1 == add_op([cs EXCEPT !.scope_depth = @ - 1], OpReturn)
      fn == function(c1)
      c2 == add_loop([c1 EXCEPT !.functions = Front(@), !.locals = Front(@)], fn)
      c3 == add_constant(add_op(c2, OpLoop), String(fn.name))
  IN IF function(c3).is_loop THEN unwind_loops(c3) ELSE c3

compile_declaration(cs) ==
  LET kind == scanner_peek(cs).kind
  IN IF cs.panicked \/ cs.diverged THEN cs
     ELSE IF kind = "Let" THEN compile_let(scanner_next(cs))
     ELSE IF kind = "Fun" THEN compile_fun(scanner_next(cs))
     ELSE IF kind = "Return"
     THEN LET c1 == expect(invoke("compile_expression", scanner_next(cs), <<>>), "Semicolon")
              c2 == IF function(c1).is_loop THEN unwind_loops(c1) ELSE c1
              c3 == add_op(c2, OpReturn)
          IN [c3 EXCEPT !.functions[Len(c3.functions)].has_return = Some(TRUE)]
     ELSE invoke("compile_statement", cs, <<TRUE, TRUE>>)

\* a variant of compile_let that compares the name only, not the scope
compile_let_by_name(cs) ==
  LET token == scanner_peek(cs)
      c1 == scanner_next(cs)
      c2 == IF scanner_peek(c1).kind = "Equal"
            THEN invoke("compile_expression", scanner_next(c1), <<>>)
            ELSE add_op(c1, OpNil)
      c3 == expect(c2, "Semicolon")
      variable_name == Unwrap(token.value).s
      current_scope == c3.scope_depth
      ls == locals(c3)
  IN IF token.kind # "Identifier" THEN push_error(c1, "unexpected #2")
     ELSE IF c3.scope_depth = 0
     THEN add_constant(add_op(c3, OpDefGlobal), Unwrap(token.value))
     ELSE IF variable_name = "_" THEN c3
     ELSE IF \E i \in 1..Len(ls) : ls[i][1] = variable_name
     THEN push_error(c3, "Variable is already defined")
     ELSE [c3 EXCEPT !.locals[Len(c3.locals)] =
             Append(@, <<variable_name, current_scope>>)]

compile_let(cs) ==
  LET token == scanner_peek(cs)
      c1 == scanner_next(cs)
      c2 == IF scanner_peek(c1).kind = "Equal"
            THEN invoke("compile_expression", scanner_next(c1), <<>>)
            ELSE add_op(c1, OpNil)
      c3 == expect(c2, "Semicolon")
      variable_name == Unwrap(token.value).s
      current_scope == c3.scope_depth
      ls == locals(c3)
  IN IF token.kind # "Identifier" THEN push_error(c1, "unexpected #2")
     ELSE IF c3.scope_depth = 0
     THEN add_constant(add_op(c3, OpDefGlobal), Unwrap(token.value))
     ELSE IF variable_name = "_" THEN c3
     ELSE IF \E i \in 1..Len(ls) : ls[i] = <<variable_name, current_scope>>
     THEN push_error(c3, "Variable is already defined")
     ELSE [c3 EXCEPT !.locals[Len(c3.locals)] =
             Append(@, <<variable_name, current_scope>>)]

\* the parameter list: the state and the arity after it.  At the end of
\* the input scanner.next() yields Eof again and again, every turn of the
\* loop pushes an error and the loop has no exit: the compiler has diverged.
param_loop(cs, arity) ==
  LET token == scanner_peek(cs)
      c1 == scanner_next(cs)
      c2 == [c1 EXCEPT !.locals[Len(c1.locals)] =
               Append(@, <<Unwrap(token.value).s, c1.scope_depth>>)]
      peeked == scanner_peek(c2).kind
  IN IF token.kind = "Eof"
     THEN [cs |-> [push_error(c1, "unexpected #4") EXCEPT !.diverged = TRUE],
           arity |-> arity]
     ELSE IF token.kind = "Identifier"
     THEN (IF peeked = "Comma" THEN param_loop(scanner_next(c2), arity + 1)
           ELSE IF peeked = "RightParen"
           THEN [cs |-> scanner_next(c2), arity |-> arity + 1]
           ELSE param_loop(push_error(c2, "unexpected #3"), arity + 1))
     ELSE IF token.kind = "RightParen" THEN [cs |-> c1, arity |-> arity]
     ELSE param_loop(push_error(c1, "unexpected #4"), arity)

compile_fun(cs) ==
  LET token == scanner_peek(cs)
      c1 == scanner_next(cs)
      function_name == Unwrap(token.value).s
      captured == captured_locals(c1) @@ function(c1).captures
      c2 == expect(c1, "LeftParen")
      c3 == [c2 EXCEPT !.scope_depth = @ + 1, !.locals = Append(@, <<>>)]
      params == param_loop(c3, 0)
      c4 == new_function(params.cs, function_name, params.arity, captured)
      c5 == invoke("compile_statement", c4, <<FALSE, TRUE>>)
      c6 == IF function(c5).has_return = Some(FALSE)
            THEN add_op(add_op(c5, OpNil), OpReturn)
            ELSE c5
      c7 == [c6 EXCEPT !.scope_depth = @ - 1, !.functions = Front(@),
                       !.locals = Front(@)]
      address == Len(c7.vm_functions)
      c8 == add_function(c7, c7.scope_depth, function(c6))
  IN IF token.kind # "Identifier" THEN push_error(c1, "unexpected #5")
     ELSE IF function_exists(c1.vm_functions, c1.scope_depth, function_name)
             \/ resolve_nif(function_name)
     THEN push_error(c1, "Function already exists")
     ELSE IF c8.scope_depth > 0
     THEN add_constant(add_op(c8, OpMakeClosure), Number(address))
     ELSE c8

\* a variant of retain that drops no local
retain_all(ls, current_scope) == ls

\* self.locals().retain(|(_, scope)| *scope != current_scope)
retain(ls, current_scope) == SelectSeq(ls, LAMBDA e : e[2] # current_scope)

\* the declarations of a block, up to the closing brace or the end
block_loop(cs) ==
  IF cs.panicked \/ cs.diverged
     \/ scanner_peek(cs).kind \in {"RightBrace", "Eof"} THEN cs
  ELSE block_loop(invoke("compile_declaration", cs, <<>>))

compile_statement(cs, manage_scope, clear_scope) ==
  LET kind == scanner_peek(cs).kind
      b1 == IF manage_scope
            THEN [scanner_next(cs) EXCEPT !.scope_depth = @ + 1]
            ELSE scanner_next(cs)
      b2 == expect(block_loop(b1), "RightBrace")
      current_scope == b2.scope_depth
      b3 == [b2 EXCEPT !.locals[Len(b2.locals)] = retain(@, current_scope)]
      b4 == IF clear_scope
            THEN add_constant(add_op(b3, OpClearScope), Number(current_scope))
            ELSE b3
  IN IF kind = "If" THEN compile_if(scanner_next(cs))
     ELSE IF kind = "While" THEN compile_while(scanner_next(cs))
     ELSE IF kind = "LeftBrace"
     THEN (IF manage_scope THEN [b4 EXCEPT !.scope_depth = @ - 1] ELSE b4)
     ELSE expect(invoke("compile_expression", cs, <<>>), "Semicolon")

compile_if(cs) ==
  LET c1 == add_jump(invoke("compile_expression", cs, <<>>), TRUE)
      jump_addr == jump_address(c1)
      c2 == invoke("compile_statement", add_op(c1, OpPop), <<TRUE, TRUE>>)
      c3 == add_jump(c2, FALSE)
      else_jump_addr == jump_address(c3)
      c4 == add_op(patch_jump(c3, jump_addr), OpPop)
      c5 == IF scanner_peek(c4).kind = "Else"
            THEN invoke("compile_statement", scanner_next(c4), <<TRUE, TRUE>>)
            ELSE c4
  IN patch_jump(c5, else_jump_addr)

compile_while(cs) ==
  LET captured == captured_locals(cs)
      name == fresh_loop_name(cs)
      c1 == [cs EXCEPT !.scope_depth = @ + 1, !.locals = Append(@, <<>>),
                       !.loop_seq = @ + 1]
      c2 == invoke("compile_expression", compiler_new_loop(c1, name, 0, captured), <<>>)
      c3 == add_jump(c2, TRUE)
      jump_addr == jump_address(c3)
      c4 == invoke("compile_statement", add_op(c3, OpPop), <<FALSE, FALSE>>)
      c5 == add_constant(add_op(c4, OpLoop), String(name))
      c6 == add_op(patch_jump(c5, jump_addr), OpPop)
      c7 == add_loop([c6 EXCEPT !.scope_depth = @ - 1, !.functions = Front(@),
                                !.locals = Front(@)], function(c6))
  IN IF function(c4).is_loop
     THEN add_constant(add_op(c7, OpLoop), String(name))
     ELSE c4

compile_expression(cs) == expression_loop(invoke("compile_term", cs, <<TRUE>>))

expression_loop(cs) ==
  LET kind == scanner_peek(cs).kind
      o1 == add_jump(scanner_next(cs), TRUE)
      else_jump_addr == jump_address(o1)
      o2 == add_jump(o1, FALSE)
      end_jump_addr == jump_address(o2)
      o3 == invoke("compile_term", add_op(patch_jump(o2, else_jump_addr), OpPop), <<FALSE>>)
  IN IF cs.panicked \/ cs.diverged THEN cs
     ELSE IF kind = "Minus"
     THEN expression_loop(add_op(invoke("compile_term", cs, <<FALSE>>), OpAdd))
     ELSE IF kind = "Plus"
     THEN expression_loop(add_op(invoke("compile_term", scanner_next(cs), <<FALSE>>), OpAdd))
     ELSE IF kind = "Concat"
     THEN expression_loop(add_op(invoke("compile_term", scanner_next(cs), <<FALSE>>), OpConcat))
     ELSE IF kind = "Or"
     THEN expression_loop(patch_jump(o3, end_jump_addr))
     ELSE cs

compile_term(cs, can_assign) == term_loop(invoke("compile_factor", cs, <<can_assign>>))

\* the opcode a binary operator of compile_term emits
TermOp(kind) ==
  CASE kind = "Star" -> OpMultiply
    [] kind = "Slash" -> OpDivide
    [] kind = "Percent" -> OpRem
    [] kind = "EqualEqual" -> OpEqual
    [] kind = "BangEqual" -> OpNotEqual
    [] kind = "GreaterEqual" -> OpGreaterEqual
    [] kind = "Greater" -> OpGreater
    [] kind = "LessEqual" -> OpLessEqual
    [] kind = "Less" -> OpLess

term_loop(cs) ==
  LET kind == scanner_peek(cs).kind
      a1 == add_jump(scanner_next(cs), TRUE)
      jump_addr == jump_address(a1)
      a2 == invoke("compile_factor", add_op(a1, OpPop), <<FALSE>>)
  IN IF cs.panicked \/ cs.diverged THEN cs
     ELSE IF kind \in {"Star", "Slash", "Percent", "EqualEqual", "BangEqual",
                       "GreaterEqual", "Greater", "LessEqual", "Less"}
     THEN term_loop(add_op(invoke("compile_factor", scanner_next(cs), <<FALSE>>), TermOp(kind)))
     ELSE IF kind = "And" THEN term_loop(patch_jump(a2, jump_addr))
     ELSE cs

\* the argument list of a call: the state and the argument count after
\* it.  At the end of the input every turn of the loop compiles an
\* expression from Eof and pushes an error, without an exit (diverged).
args_loop(cs, args) ==
  LET c1 == invoke("compile_expression", cs, <<>>)
      peeked == scanner_peek(c1).kind
  IN IF scanner_peek(cs).kind = "Eof"
     THEN [cs |-> [push_error(c1, "unexpected #7") EXCEPT !.diverged = TRUE],
           args |-> args + 1]
     ELSE IF scanner_peek(cs).kind = "RightParen"
     THEN [cs |-> scanner_next(cs), args |-> args]
     ELSE IF peeked = "Comma" THEN args_loop(scanner_next(c1), args + 1)
     ELSE IF peeked = "RightParen"
     THEN [cs |-> scanner_next(c1), args |-> args + 1]
     ELSE args_loop(push_error(c1, "unexpected #7"), args + 1)

compile_factor(cs, can_assign) ==
  LET token == scanner_peek(cs)
      c1 == scanner_next(cs)
      kind == token.kind
      p1 == invoke("compile_expression", c1, <<>>)
      name == Unwrap(token.value).s
      address == resolve_local(c1, name)
      peeked == scanner_peek(c1).kind
      s1 == invoke("compile_expression", scanner_next(c1), <<>>)
      call == args_loop(scanner_next(c1), 0)
      k1 == add_constant(add_op(call.cs, OpCall), Number(call.cs.scope_depth))
      k2 == add_constant(add_constant(k1, Number(call.args)), Unwrap(token.value))
  IN IF kind = "Nil" THEN add_op(c1, OpNil)
     ELSE IF kind \in {"Number", "String"} THEN add_constant(c1, Unwrap(token.value))
     ELSE IF kind = "True" THEN add_constant(c1, Boolean(TRUE))
     ELSE IF kind = "False" THEN add_constant(c1, Boolean(FALSE))
     ELSE IF kind = "Not" THEN add_op(invoke("compile_factor", c1, <<can_assign>>), OpNot)
     ELSE IF kind = "Minus" THEN add_op(invoke("compile_factor", c1, <<can_assign>>), OpNegate)
     ELSE IF kind = "LeftParen"
     THEN (IF scanner_peek(p1).kind = "RightParen" THEN scanner_next(p1)
           ELSE push_error(p1, "unexpected #6"))
     ELSE IF kind # "Identifier" THEN push_error(c1, "unexpected #8")
     ELSE IF peeked = "Equal" /\ can_assign
     THEN (IF address # None
           THEN add_address(add_op(s1, OpSetLocal), Unwrap(address))
           ELSE IF name \in DOMAIN function(s1).captures
           THEN add_constant(add_op(s1, OpSetCaptured), String(name))
           ELSE add_constant(add_op(s1, OpSetGlobal), String(name)))
     ELSE IF peeked = "Dot" THEN scanner_next(c1)
     ELSE IF peeked = "Equal"
     THEN push_error(scanner_next(c1), "Invalid assignment target")
     ELSE IF peeked = "LeftParen" THEN k2
     ELSE IF address # None
     THEN add_address(add_op(c1, OpGetLocal), Unwrap(address))
     ELSE IF name \in DOMAIN function(c1).captures
     THEN add_constant(add_op(c1, OpGetCaptured), Unwrap(token.value))
     ELSE IF function_exists(c1.vm_functions, c1.scope_depth, name)
     THEN add_constant(c1, Function(Unwrap(
            resolve_function(c1.vm_functions, c1.constants, name, c1.scope_depth))))
     ELSE add_constant(add_op(c1, OpGetGlobal), String(name))

\* a call of a parsing method by another method, or by itself: `method` names
\* the callee and `args` holds its arguments after the compiler state.  The
\* methods are mutually recursive; every such call goes through this one
\* recursive operator.
invoke(method, cs, args) ==
  CASE method = "compile_loop" -> compile_loop(cs)
    [] method = "compile_declaration" -> compile_declaration(cs)
    [] method = "compile_statement" -> compile_statement(cs, args[1], args[2])
    [] method = "compile_expression" -> compile_expression(cs)
    [] method = "compile_term" -> compile_term(cs, args[1])
    [] method = "compile_factor" -> compile_factor(cs, args[1])

\* Compiler::new, for the tables of the VM
compiler_new(tokens, ks, fs, lps, seq) ==
  [tokens |-> tokens, pos |-> 1, errors |-> <<>>, scope_depth |-> 0,
   functions |-> <<new_main("##MAIN##")>>, locals |-> << <<>> >>,
   constants |-> ks, vm_functions |-> fs, loops |-> lps, loop_seq |-> seq,
   panicked |-> FALSE, diverged |-> FALSE]

\* Compiler::compile: the state after the loop over the declarations; the
\* result is Ok(function(cs)) when cs.errors is empty, else CompileError
compile(cs) == invoke("compile_loop", cs, <<>>)

(***************************************************************************)
(* Scanner (scanner.rs).  A source text is given as the sequence of its    *)
(* lexemes; scan maps every lexeme to the token the scanner yields for it. *)
(***************************************************************************)
MaxLiteral == 235

Symbols ==
  ("(" :> "LeftParen") @@ (")" :> "RightParen") @@ ("{" :> "LeftBrace")
  @@ ("}" :> "RightBrace") @@ ("," :> "Comma") @@ ("." :> "Dot")
  @@ ("-" :> "Minus") @@ ("+" :> "Plus") @@ (";" :> "Semicolon")
  @@ ("/" :> "Slash") @@ ("*" :> "Star") @@ ("%" :> "Percent")
  @@ ("!" :> "Bang") @@ ("!=" :> "BangEqual") @@ ("<>" :> "Concat")
  @@ ("=" :> "Equal") @@ ("==" :> "EqualEqual") @@ (">" :> "Greater")
  @@ (">=" :> "GreaterEqual") @@ ("<" :> "Less") @@ ("<=" :> "LessEqual")

keyword_equivalent ==
  ("and" :> "And") @@ ("class" :> "Class") @@ ("else" :> "Else")
  @@ ("expands" :> "Expands") @@ ("false" :> "False") @@ ("fun" :> "Fun")
  @@ ("for" :> "For") @@ ("if" :> "If") @@ ("nil" :> "Nil")
  @@ ("not" :> "Not") @@ ("or" :> "Or") @@ ("return" :> "Return")
  @@ ("super" :> "Super") @@ ("this" :> "This") @@ ("true" :> "True")
  @@ ("let" :> "Let") @@ ("while" :> "While")

\* the string literals of the programs: lexeme, with its quotes, to content
Quoted == [s \in {"\"" \o SortedStrings[i] \o "\"" : i \in 1..Len(SortedStrings)} |->
             CHOOSE c \in {SortedStrings[i] : i \in 1..Len(SortedStrings)} :
               s = "\"" \o c \o "\""]

scan_token(lexeme) ==
  IF lexeme \in DOMAIN Symbols THEN Token(Symbols[lexeme])
  ELSE IF lexeme \in DOMAIN keyword_equivalent
  THEN Token(keyword_equivalent[lexeme])
  ELSE IF lexeme \in DOMAIN Quoted
  THEN [kind |-> "String", value |-> Some(String(Quoted[lexeme]))]
  ELSE IF \E i \in 0..MaxLiteral : ToString(i) = lexeme
  THEN [kind |-> "Number",
        value |-> Some(Number(CHOOSE i \in 0..MaxLiteral : ToString(i) = lexeme))]
  ELSE [kind |-> "Identifier", value |-> Some(String(lexeme))]

scan(lexemes) == [i \in 1..Len(lexemes) |-> scan_token(lexemes[i])]

(***************************************************************************)
(* VM (vm.rs).  A VM record m holds the fields of the VM struct that the   *)
(* handlers of VM::run read and write.  A handler maps m to an outcome:    *)
(* the VM after it and how run goes on ("Go": on to the next opcode after  *)
(* n operand words; "Enter": self.run(callee) is entered; "Return": run    *)
(* returns Ok; "RuntimeError", "CompileError": run returns that; "Panic":  *)
(* the process aborts).                                                    *)
(***************************************************************************)
Go(m, n) == [res |-> "Go", vm |-> m, n |-> n, callee |-> None]

Enter(m, n, f, kind) ==
  [res |-> "Enter", vm |-> m, n |-> n,
   callee |-> Some([function |-> f, ip |-> 0, kind |-> kind])]

Returned(m) == [res |-> "Return", vm |-> m, n |-> 0, callee |-> None]

RuntimeError(m) == [res |-> "RuntimeError", vm |-> m, n |-> 0, callee |-> None]

CompileError(m) == [res |-> "CompileError", vm |-> m, n |-> 0, callee |-> None]

Panic(m) == [res |-> "Panic", vm |-> m, n |-> 0, callee |-> None]

\* self.stack.last().unwrap() panics
no_frame(m) == m.stack = <<>>

stack_push(m, value) == [m EXCEPT !.stack[Len(m.stack)] = Append(@, value)]

stack_peek(m) ==
  IF Last(m.stack) = <<>> THEN None ELSE Some(Last(Last(m.stack)))

\* the VM after stack_pop, whose result is stack_peek before it
stack_pop(m) ==
  [m EXCEPT !.stack[Len(m.stack)] = IF @ = <<>> THEN @ ELSE Front(@)]

stack_get(m, address) == chunk_get(Last(m.stack), address)

\* Vec::remove panics when the address is not in the frame
stack_insert_panics(m, address) == address >= Len(Last(m.stack))

stack_insert(m, address, value) ==
  [m EXCEPT !.stack[Len(m.stack)][address + 1] = value]

\* self.stack.pop() and self.stack.push(frame), on the vector of frames
frames_pop(m) == [m EXCEPT !.stack = IF @ = <<>> THEN @ ELSE Front(@)]

frames_push(m, frame) == [m EXCEPT !.stack = Append(@, frame)]

get_constant(m, address) == chunk_get(m.constants, address)

get_loop(m, name) ==
  IF name \in DOMAIN m.loops THEN Some(m.loops[name]) ELSE None

remove_loop(m, name) ==
  [m EXCEPT !.loops = [k \in (DOMAIN @) \ {name} |-> @[k]]]

\* a variant of is_falsey under which no number and no string is falsey
is_falsey_of_nil_and_false(value) ==
  CASE value.t \in {"String", "Number"} -> Some(FALSE)
    [] value.t = "Boolean" -> Some(~value.b)
    [] value.t = "Nil" -> Some(TRUE)
    [] OTHER -> None

is_falsey(value) ==
  CASE value.t = "String" -> Some(value.s = "")
    [] value.t = "Number" -> Some(IsZero(value))
    [] value.t = "Boolean" -> Some(~value.b)
    [] value.t = "Nil" -> Some(TRUE)
    [] OTHER -> None

\* `x as u128` of an f64: truncated, and saturated at the ends of u128
as_u128(x) ==
  IF x.d = 0 THEN 0
  ELSE IF x.n < 0 THEN 0 ELSE x.n \div x.d

\* `x as i128` of an f64 that is not infinite: truncated toward zero, and
\* 0 for NaN (an infinity saturates at the ends of i128, see i128_div)
as_i128(x) == IF x.d = 0 THEN 0 ELSE TruncDiv(x.n, x.d)

(***************************************************************************)
(* Natives (nif.rs): Nif::call.  A native pops its arguments with          *)
(* stack_pop().unwrap(), which panics when the frame holds too few values. *)
(***************************************************************************)
\* the topmost count values of the current frame, oldest first
top_values(m, count) ==
  LET fr == Last(m.stack)
  IN SubSeq(fr, Len(fr) - count + 1, Len(fr))

pop_values(m, count) ==
  [m EXCEPT !.stack[Len(m.stack)] = SubSeq(@, 1, Len(@) - count)]

underflow(m, count) == no_frame(m) \/ Len(Last(m.stack)) < count

\* a variant of print_call without the rev() of the popped arguments
print_call_as_popped(m, args_count) ==
  LET args == top_values(m, args_count)
      items == [i \in 1..args_count |-> into_string(args[args_count + 1 - i])]
  IN [pop_values(m, args_count) EXCEPT !.stdout = @ \o items]

print_call(m, args_count) ==
  LET args == top_values(m, args_count)
      items == [i \in 1..args_count |-> into_string(args[i])]
  IN [pop_values(m, args_count) EXCEPT !.stdout = @ \o items]

println_call(m, args_count) ==
  [print_call(m, args_count) EXCEPT !.stdout = Append(@, "\n")]

\* Parse: the strings that are the text of a value
parse_call(arg) ==
  IF arg.t # "String" THEN arg
  ELSE IF arg.s = "nil" THEN Nil
  ELSE IF arg.s = "true" THEN Boolean(TRUE)
  ELSE IF arg.s = "false" THEN Boolean(FALSE)
  ELSE IF \E i \in 0..MaxLiteral : ToString(i) = arg.s
  THEN Number(CHOOSE i \in 0..MaxLiteral : ToString(i) = arg.s)
  ELSE IF \E i \in 1..MaxLiteral : "-" \o ToString(i) = arg.s
  THEN Number(0 - (CHOOSE i \in 1..MaxLiteral : "-" \o ToString(i) = arg.s))
  ELSE arg

type_of_call(arg) ==
  CASE arg.t = "Nil" -> "nil"
    [] arg.t = "String" -> "string"
    [] arg.t = "Number" -> "number"
    [] arg.t = "Boolean" -> "boolean"
    [] arg.t = "Function" -> "function"

\* a native of one argument that pushes one result
unary_call(name, arg) ==
  CASE name = "parse" -> parse_call(arg)
    [] name = "is_nil" -> Boolean(arg.t = "Nil")
    [] name = "type_of" -> String(type_of_call(arg))
    [] name = "is_number" -> Boolean(arg.t = "Number")
    [] name = "is_string" -> Boolean(arg.t = "String")
    [] name = "is_boolean" -> Boolean(arg.t = "Boolean")
    [] name = "is_function" -> Boolean(arg.t = "Function")

\* (left as i128 / right as i128) as f64, or None where the division
\* panics: on a zero divisor and on i128::MIN / -1.  An infinity is cast to
\* i128::MAX or i128::MIN; every finite number of the model is less than
\* these in magnitude, and the quotient of one of them by a finite number,
\* which is beyond the integers the model keeps, is kept as the infinity of
\* its sign.
i128_div(left, right) ==
  IF IsFinite(right) \/ right = NaN
  THEN IF as_i128(right) = 0 THEN None
       ELSE IF IsFinite(left) \/ left = NaN
       THEN Some(Number(TruncDiv(as_i128(left), as_i128(right))))
       ELSE IF left.n < 0 /\ as_i128(right) = 0 - 1 THEN None
       ELSE Some(Inf(left.n * (IF as_i128(right) < 0 THEN 0 - 1 ELSE 1)))
  ELSE IF IsFinite(left) \/ left = NaN THEN Some(Number(0))
  ELSE Some(Number(IF left.n = right.n THEN 1
                   ELSE IF left.n < 0 THEN 0 - 1 ELSE 0))

\* Div::call
div_call(m) ==
  LET args == top_values(m, 2)
      m1 == pop_values(m, 2)
  IN IF args[1].t # "Number" \/ args[2].t # "Number" THEN RuntimeError(m1)
     ELSE IF i128_div(args[1], args[2]) = None THEN Panic(m1)
     ELSE Go(stack_push(m1, Unwrap(i128_div(args[1], args[2]))), 6)

\* nif.call(self, args) for the native of that name; elapsed is what the
\* clock reads
nif_call(m, name, args, elapsed) ==
  CASE name = "clock" ->
         (IF no_frame(m) THEN Panic(m)
          ELSE Go(stack_push(m, Number(elapsed)), 6))
    [] name = "print" ->
         (IF underflow(m, args) THEN Panic(m) ELSE Go(print_call(m, args), 6))
    [] name = "println" ->
         (IF underflow(m, args) THEN Panic(m) ELSE Go(println_call(m, args), 6))
    [] name = "div" -> (IF underflow(m, 2) THEN Panic(m) ELSE div_call(m))
    [] OTHER ->
         (IF underflow(m, 1) THEN Panic(m)
          ELSE Go(stack_push(pop_values(m, 1),
                             unary_call(name, Last(Last(m.stack)))), 6))

(***************************************************************************)
(* The state of one VM: the source text handed to interpret, the fields of *)
(* the VM struct, the errors the compiler recorded, the run invocations    *)
(* that are active (calls: the function, the position ip of its iterator,  *)
(* and what entered it: "main", "call" or "loop"), the result of interpret *)
(* and the number of opcodes run has dispatched.                           *)
(***************************************************************************)
VARIABLES source, phase, result, errors, stack, constants, globals,
          functions, loops, stdout, calls, executed

vars ==
  <<source, phase, result, errors, stack, constants, globals, functions,
    loops, stdout, calls, executed>>

vm ==
  [stack |-> stack, constants |-> constants, globals |-> globals,
   functions |-> functions, loops |-> loops, stdout |-> stdout]

current == Last(calls)

code == current.function.codes

\* iterator.next(), k words after the opcode
next_word(k) == chunk_get(code, current.ip + k)

\* the constant whose address is k words after the opcode
constant_at(k) ==
  IF next_word(k) = None THEN None ELSE get_constant(vm, Unwrap(next_word(k)))

\* run is about to dispatch this opcode
Dispatch(op) ==
  /\ phase = "running"
  /\ current.ip < chunk_size(code)
  /\ OpCodeFrom(code[current.ip + 1]) = op

\* what the handler that entered a run does when that run returns Ok
after_run(m, invocation) ==
  IF invocation.kind = "loop"
  THEN remove_loop(frames_pop(m), invocation.function.name)
  ELSE m

\* a variant of the step in which a run that fails pops the frames of the
\* invocations it ends
Apply_unwinding(out, dispatched) ==
  LET failed == out.res \in {"RuntimeError", "CompileError", "Panic"}
      ended == out.res = "Return"
      m == IF ended THEN after_run(out.vm, current) ELSE out.vm
      advanced == [calls EXCEPT ![Len(calls)].ip = @ + 1 + out.n]
  IN /\ stack' = IF failed /\ Len(m.stack) >= Len(calls)
                 THEN SubSeq(m.stack, 1, Len(m.stack) + 1 - Len(calls))
                 ELSE m.stack
     /\ constants' = m.constants
     /\ globals' = m.globals
     /\ functions' = m.functions
     /\ loops' = m.loops
     /\ stdout' = m.stdout
     /\ calls' = CASE out.res = "Go" -> advanced
                   [] out.res = "Enter" -> Append(advanced, Unwrap(out.callee))
                   [] ended -> Front(calls)
                   [] OTHER -> calls
     /\ result' = IF failed
                  THEN (IF out.res = "Panic" \/ Len(calls) = 1 THEN out.res
                        ELSE "RuntimeError")
                  ELSE IF ended /\ Len(calls) = 1 THEN "Ok"
                  ELSE result
     /\ phase' = IF failed \/ (ended /\ Len(calls) = 1) THEN "done" ELSE phase
     /\ executed' = executed + dispatched
     /\ UNCHANGED <<source, errors>>

\* the step of run whose handler has the outcome out
Apply(out, dispatched) ==
  LET failed == out.res \in {"RuntimeError", "CompileError", "Panic"}
      ended == out.res = "Return"
      m == IF ended THEN after_run(out.vm, current) ELSE out.vm
      advanced == [calls EXCEPT ![Len(calls)].ip = @ + 1 + out.n]
  IN /\ stack' = m.stack
     /\ constants' = m.constants
     /\ globals' = m.globals
     /\ functions' = m.functions
     /\ loops' = m.loops
     /\ stdout' = m.stdout
     /\ calls' = CASE out.res = "Go" -> advanced
                   [] out.res = "Enter" -> Append(advanced, Unwrap(out.callee))
                   [] ended -> Front(calls)
                   [] OTHER -> calls
     /\ result' = IF failed
                  THEN (IF out.res = "Panic" \/ Len(calls) = 1 THEN out.res
                        ELSE "RuntimeError")
                  ELSE IF ended /\ Len(calls) = 1 THEN "Ok"
                  ELSE result
     /\ phase' = IF failed \/ (ended /\ Len(calls) = 1) THEN "done" ELSE phase
     /\ executed' = executed + dispatched
     /\ UNCHANGED <<source, errors>>

(***************************************************************************)
(* main and repl (main.rs).  In a REPL session the source is what readline *)
(* yields: source.args is <<session, n>> for the n lines of the session    *)
(* read so far, and source.text is the text handed to interpret.  A line   *)
(* is a lexeme sequence; no lexeme is split over two lines.  The phase is  *)
(* "prompt" before the first readline and "exited" when repl has returned. *)
(***************************************************************************)
\* the lines the user types in a session, by the name of the session
repl_lines(session) ==
  CASE session = "errors" ->
         << <<"let", "a", "=", "1", ";">>,
            <<"a", "=", "2", ";", "print", "(", "1", "+", "nil", ")", ";">>,
            <<"let", "=", "3", ";">>,
            <<"a", "=", "3", ";">> >>
    [] session = "continuation" ->
         << <<"let", "a", "=", "1", ";">>,
            <<"fun", "f", "(", ")", "{">>,
            <<"a", "=", "2", ";">>,
            <<"}">>,
            <<"f", "(", ")", ";">> >>
    [] session = "unfinished" ->
         << <<"let", "a", "=", "1", ";">>, <<"fun", "f", "(", ")", "{">> >>
    [] session = "return" ->
         << <<"let", "a", "=", "1", ";">>, <<"return", "1", ";">>,
            <<"a", "=", "2", ";">> >>
    [] session = "undefined" ->
         << <<"a", "=", "1", ";">>, <<"a", "=", "2", ";">> >>
    [] session = "rejected" ->
         << <<"fun", "f", "(", ")", "{", "}",
              "while", "false", "{", "}", "let", "=", "1", ";">>,
            <<"fun", "f", "(", ")", "{", "}">> >>
    [] session = "empty" -> <<>>

Sessions ==
  {"errors", "continuation", "unfinished", "return", "undefined", "rejected",
   "empty"}

\* the continuation prompt: lines are appended to `line` until it ends
\* with a closing brace; the readline after the last line of the session
\* fails.  The result is the text and the number of lines read.
RECURSIVE continuation(_, _, _)
continuation(lines, n, line) ==
  IF n >= Len(lines) THEN [ok |-> FALSE, line |-> line, n |-> n]
  ELSE LET joined == line \o lines[n + 1]
       IN IF joined # <<>> /\ Last(joined) = "}"
          THEN [ok |-> TRUE, line |-> joined, n |-> n + 1]
          ELSE continuation(lines, n + 1, joined)

\* one iteration of the loop of repl up to the call of interpret, when the
\* first readline yields the next line of the session
read_command(lines, n) ==
  LET line == lines[n + 1]
  IN IF line # <<>> /\ Last(line) = "{"
     THEN continuation(lines, n + 1, line)
     ELSE [ok |-> TRUE, line |-> line, n |-> n + 1]

\* the number of lexemes in the first n lines
RECURSIVE lexemes(_, _)
lexemes(lines, n) ==
  IF n = 0 THEN 0 ELSE lexemes(lines, n - 1) + Len(lines[n])

\* loop names are random and so never those of an earlier line: the
\* sequence number of the first loop name of a command is the number of
\* lexemes read before it, which is at least the number of loops so far
first_loop_name ==
  IF source.name = "repl"
  THEN lexemes(repl_lines(source.args[1]), source.args[2]) - Len(source.text)
  ELSE 0

\* impl Termination for InterpretResult: the exit status
report(r) == IF r = "Ok" THEN 0 ELSE 1

\* the exit status of the process when main returns Ok(r) or Err(r)
main_exit(ok, r) == IF ok THEN report(r) ELSE 1

\* repl is at a readline for the first line of a command: the session has
\* started or interpret has returned
at_prompt ==
  /\ source.name = "repl"
  /\ phase \in {"prompt", "done"}
  /\ result # "Panic"

\* readline yields a line: repl reads the command and calls interpret, or
\* returns Err(CliError) when a readline of the continuation fails
Readline ==
  /\ at_prompt
  /\ source.args[2] < Len(repl_lines(source.args[1]))
  /\ LET read == read_command(repl_lines(source.args[1]), source.args[2])
     IN /\ source' = [source EXCEPT !.args[2] = read.n, !.text = read.line]
        /\ phase' = IF read.ok THEN "start" ELSE "exited"
        /\ result' = IF read.ok THEN "None" ELSE "CliError"
  /\ errors' = <<>>
  /\ calls' = <<>>
  /\ UNCHANGED <<stack, constants, globals, functions, loops, stdout, executed>>

\* readline fails (end of input, interrupt): repl returns Err(CliError)
ReadlineFails ==
  /\ at_prompt
  /\ phase' = "exited"
  /\ result' = "CliError"
  /\ UNCHANGED <<source, errors, calls, stack, constants, globals, functions,
                 loops, stdout, executed>>

\* VM::interpret after the compiler has returned with the state cs: enter
\* run(main_function) unless the compiler recorded an error.  When the
\* compiler has diverged it never returns: the phase stays "compiling".
interpret(cs) ==
  /\ errors' = cs.errors
  /\ constants' = cs.constants
  /\ functions' = cs.vm_functions
  /\ loops' = cs.loops
  /\ IF cs.diverged
     THEN phase' = "compiling" /\ result' = "None" /\ calls' = <<>>
     ELSE IF cs.panicked
     THEN phase' = "done" /\ result' = "Panic" /\ calls' = <<>>
     ELSE IF cs.errors # <<>>
     THEN phase' = "done" /\ result' = "CompileError" /\ calls' = <<>>
     ELSE /\ phase' = "running"
          /\ result' = "None"
          /\ calls' = <<[function |-> function(cs), ip |-> 0, kind |-> "main"]>>

\* VM::interpret: compile the source, then the above
Interpret ==
  /\ phase = "start"
  /\ interpret(compile(compiler_new(scan(source.text), constants, functions,
                                    loops, first_loop_name)))
  /\ UNCHANGED <<source, stack, globals, stdout, executed>>

\* the iterator of run is exhausted: run returns Ok
RunEnd ==
  /\ phase = "running"
  /\ current.ip >= chunk_size(code)
  /\ Apply(Returned(vm), 0)

Return ==
  /\ Dispatch(OpReturn)
  /\ Apply(LET top == stack_peek(vm)
               return_value == IF top = None THEN Nil ELSE Unwrap(top)
               m1 == frames_pop(vm)
           IN IF no_frame(vm) \/ no_frame(m1) THEN Panic(m1)
              ELSE Returned(stack_push(m1, return_value)), 1)

Constant ==
  /\ Dispatch(OpConstant)
  /\ Apply(LET constant == constant_at(1)
           IN IF constant = None THEN RuntimeError(vm)
              ELSE IF no_frame(vm) THEN Panic(vm)
              ELSE Go(stack_push(vm, Unwrap(constant)), 1), 1)

concat(left, right) == String(into_string(left) \o into_string(right))

eq(left, right) == Boolean(value_eq(left, right))

ne(left, right) == Boolean(~value_eq(left, right))

ge(left, right) == Boolean(partial_cmp(left, right) \in {Some("Greater"), Some("Equal")})

gt(left, right) == Boolean(partial_cmp(left, right) = Some("Greater"))

le(left, right) == Boolean(partial_cmp(left, right) \in {Some("Less"), Some("Equal")})

lt(left, right) == Boolean(partial_cmp(left, right) = Some("Less"))

\* the operation of the handler of a binary opcode on its two operands
binary(op, left, right) ==
  CASE op = OpAdd -> f64_add(left, right)
    [] op = OpMultiply -> f64_mul(left, right)
    [] op = OpRem -> f64_rem(left, right)
    [] op = OpDivide -> f64_div(left, right)
    [] op = OpConcat -> concat(left, right)
    [] op = OpEqual -> eq(left, right)
    [] op = OpNotEqual -> ne(left, right)
    [] op = OpGreaterEqual -> ge(left, right)
    [] op = OpGreater -> gt(left, right)
    [] op = OpLessEqual -> le(left, right)
    [] op = OpLess -> lt(left, right)

\* `let Some(Value::Number(right)) = pop else RuntimeError`, twice, and
\* the push of the result
binary_number(m, op) ==
  LET right == stack_peek(m)
      m1 == stack_pop(m)
      left == stack_peek(m1)
      m2 == stack_pop(m1)
  IN IF no_frame(m) THEN Panic(m)
     ELSE IF right = None \/ Unwrap(right).t # "Number" THEN RuntimeError(m1)
     ELSE IF left = None \/ Unwrap(left).t # "Number" THEN RuntimeError(m2)
     ELSE Go(stack_push(m2, binary(op, Unwrap(left), Unwrap(right))), 0)

\* `let Some(right) = pop else RuntimeError`, twice, and the push of the
\* result
binary_value(m, op) ==
  LET right == stack_peek(m)
      m1 == stack_pop(m)
      left == stack_peek(m1)
      m2 == stack_pop(m1)
  IN IF no_frame(m) THEN Panic(m)
     ELSE IF right = None THEN RuntimeError(m1)
     ELSE IF left = None THEN RuntimeError(m2)
     ELSE Go(stack_push(m2, binary(op, Unwrap(left), Unwrap(right))), 0)

Negate ==
  /\ Dispatch(OpNegate)
  /\ Apply(LET value == stack_peek(vm)
               m1 == stack_pop(vm)
           IN IF no_frame(vm) THEN Panic(vm)
              ELSE IF value = None \/ Unwrap(value).t # "Number"
              THEN RuntimeError(m1)
              ELSE Go(stack_push(m1, f64_neg(Unwrap(value))), 0), 1)

\* a variant of the match of the Not arm in which no number is falsey
not_value_numbers_truthy(value) ==
  CASE value.t = "Nil" -> Some(Boolean(TRUE))
    [] value.t = "Boolean" -> Some(Boolean(~value.b))
    [] value.t = "Number" -> Some(Boolean(FALSE))
    [] value.t = "String" -> Some(Boolean(value.s = ""))
    [] OTHER -> None

\* the match of the Not arm: the Boolean it pushes, None for its last arm
not_value(value) ==
  CASE value.t = "Nil" -> Some(Boolean(TRUE))
    [] value.t = "Boolean" -> Some(Boolean(~value.b))
    [] value.t = "Number" -> Some(Boolean(IsZero(value)))
    [] value.t = "String" -> Some(Boolean(value.s = ""))
    [] OTHER -> None

Not ==
  /\ Dispatch(OpNot)
  /\ Apply(LET value == stack_peek(vm)
               m1 == stack_pop(vm)
           IN IF no_frame(vm) THEN Panic(vm)
              ELSE IF value = None THEN RuntimeError(m1)
              ELSE IF not_value(Unwrap(value)) = None THEN RuntimeError(m1)
              ELSE Go(stack_push(m1, Unwrap(not_value(Unwrap(value)))), 0), 1)

Concat == Dispatch(OpConcat) /\ Apply(binary_value(vm, OpConcat), 1)

Add == Dispatch(OpAdd) /\ Apply(binary_number(vm, OpAdd), 1)

Multiply == Dispatch(OpMultiply) /\ Apply(binary_number(vm, OpMultiply), 1)

Rem == Dispatch(OpRem) /\ Apply(binary_number(vm, OpRem), 1)

Divide == Dispatch(OpDivide) /\ Apply(binary_number(vm, OpDivide), 1)

Equal == Dispatch(OpEqual) /\ Apply(binary_value(vm, OpEqual), 1)

NotEqual == Dispatch(OpNotEqual) /\ Apply(binary_value(vm, OpNotEqual), 1)

GreaterEqual == Dispatch(OpGreaterEqual) /\ Apply(binary_value(vm, OpGreaterEqual), 1)

Greater == Dispatch(OpGreater) /\ Apply(binary_value(vm, OpGreater), 1)

LessEqual == Dispatch(OpLessEqual) /\ Apply(binary_value(vm, OpLessEqual), 1)

Less == Dispatch(OpLess) /\ Apply(binary_value(vm, OpLess), 1)

Pop ==
  /\ Dispatch(OpPop)
  /\ Apply(IF no_frame(vm) THEN Panic(vm) ELSE Go(stack_pop(vm), 0), 1)

PushNil ==
  /\ Dispatch(OpNil)
  /\ Apply(IF no_frame(vm) THEN Panic(vm) ELSE Go(stack_push(vm, Nil), 0), 1)

DefGlobal ==
  /\ Dispatch(OpDefGlobal)
  /\ Apply(LET variable_name == constant_at(2)
               value == stack_peek(vm)
           IN IF variable_name = None \/ Unwrap(variable_name).t # "String"
              THEN RuntimeError(vm)
              ELSE IF no_frame(vm) THEN Panic(vm)
              ELSE IF value = None THEN RuntimeError(vm)
              ELSE Go([stack_pop(vm) EXCEPT !.globals =
                         (Unwrap(variable_name).s :> Unwrap(value)) @@ @], 2),
           1)

SetGlobal ==
  /\ Dispatch(OpSetGlobal)
  /\ Apply(LET variable_name == constant_at(2)
               value == stack_peek(vm)
               m1 == [vm EXCEPT !.globals =
                        (Unwrap(variable_name).s :> Unwrap(value)) @@ @]
           IN IF variable_name = None \/ Unwrap(variable_name).t # "String"
              THEN RuntimeError(vm)
              ELSE IF no_frame(vm) THEN Panic(vm)
              ELSE IF value = None THEN RuntimeError(vm)
              ELSE IF Unwrap(variable_name).s \notin DOMAIN globals
              THEN RuntimeError(m1)
              ELSE Go(m1, 2), 1)

SetLocal ==
  /\ Dispatch(OpSetLocal)
  /\ Apply(LET address == next_word(1)
               value == stack_peek(vm)
           IN IF address = None THEN RuntimeError(vm)
              ELSE IF no_frame(vm) THEN Panic(vm)
              ELSE IF value = None THEN RuntimeError(vm)
              ELSE IF stack_insert_panics(vm, Unwrap(address)) THEN Panic(vm)
              ELSE Go(stack_insert(vm, Unwrap(address), Unwrap(value)), 1), 1)

JumpIfFalse ==
  /\ Dispatch(OpJumpIfFalse)
  /\ Apply(LET value == stack_peek(vm)
               size == next_word(1)
           IN IF no_frame(vm) THEN Panic(vm)
              ELSE IF value = None THEN RuntimeError(vm)
              ELSE IF is_falsey(Unwrap(value)) = None THEN RuntimeError(vm)
              ELSE IF size = None THEN RuntimeError(vm)
              ELSE IF Unwrap(is_falsey(Unwrap(value)))
              THEN Go(vm, 1 + Unwrap(size))
              ELSE Go(vm, 1), 1)

Jump ==
  /\ Dispatch(OpJump)
  /\ Apply(LET size == next_word(1)
           IN IF size = None THEN RuntimeError(vm)
              ELSE Go(vm, 1 + Unwrap(size)), 1)

Loop ==
  /\ Dispatch(OpLoop)
  /\ Apply(LET loop_name == constant_at(2)
               lp == get_loop(vm, Unwrap(loop_name).s)
           IN IF loop_name = None \/ Unwrap(loop_name).t # "String"
              THEN RuntimeError(vm)
              ELSE IF lp = None THEN RuntimeError(vm)
              ELSE Enter(frames_push(vm, <<>>), 2, Unwrap(lp), "loop"), 1)

\* a variant of substack without substack.reverse()
substack_as_popped(m, args) ==
  [i \in 1..args |-> top_values(m, args)[args + 1 - i]]

\* the frame of a callee: the args values popped from the caller's frame,
\* reversed
substack(m, args) == top_values(m, args)

\* a variant of call_function without the comparison of arity and args
call_function_any_arity(m, function_name, scope, args) ==
  LET resolved == resolve_function(m.functions, m.constants, function_name, scope)
      callee == Unwrap(resolved)
  IN IF resolved = None THEN RuntimeError(m)
     ELSE IF underflow(m, args) THEN Panic(m)
     ELSE Enter(frames_push(pop_values(m, args), substack(m, args)), 6,
                callee, "call")

\* the None arm of the Call handler: a user function
call_function(m, function_name, scope, args) ==
  LET resolved == resolve_function(m.functions, m.constants, function_name, scope)
      callee == Unwrap(resolved)
  IN IF resolved = None THEN RuntimeError(m)
     ELSE IF callee.arity # args THEN RuntimeError(m)
     ELSE IF underflow(m, args) THEN Panic(m)
     ELSE Enter(frames_push(pop_values(m, args), substack(m, args)), 6,
                callee, "call")

\* the Some(nif) arm of the Call handler
call_nif(m, function_name, args, elapsed) ==
  LET arity == nif_arity(function_name)
      out == nif_call(m, function_name, args, elapsed)
  IN IF arity # None /\ Unwrap(arity) # args THEN RuntimeError(m)
     ELSE out

MaxClock == 1

Call ==
  /\ Dispatch(OpCall)
  /\ \E elapsed \in 0..MaxClock :
       Apply(LET scope == constant_at(2)
                 args == constant_at(4)
                 function_name == constant_at(6)
             IN IF scope = None \/ Unwrap(scope).t # "Number"
                THEN RuntimeError(vm)
                ELSE IF args = None \/ Unwrap(args).t # "Number"
                THEN RuntimeError(vm)
                ELSE IF function_name = None \/ Unwrap(function_name).t # "String"
                THEN RuntimeError(vm)
                ELSE IF resolve_nif(Unwrap(function_name).s)
                THEN call_nif(vm, Unwrap(function_name).s,
                              as_u128(Unwrap(args)), elapsed)
                ELSE call_function(vm, Unwrap(function_name).s,
                                   as_u128(Unwrap(scope)), as_u128(Unwrap(args))),
             1)

ClearScope ==
  /\ Dispatch(OpClearScope)
  /\ Apply(LET scope == constant_at(2)
           IN IF scope = None \/ Unwrap(scope).t # "Number"
              THEN RuntimeError(vm)
              ELSE Go([vm EXCEPT !.functions =
                         clear_scope_functions(@, as_u128(Unwrap(scope)))], 2),
           1)

\* the last arm of the match, `_ => CompileError`: Invalid, and
\* SetCaptured, for which run has no arm
Invalid ==
  /\ phase = "running"
  /\ current.ip < chunk_size(code)
  /\ OpCodeFrom(code[current.ip + 1]) \in {OpInvalid, OpSetCaptured}
  /\ Apply(CompileError(vm), 1)

(***************************************************************************)
(* The handlers of GetLocal, GetGlobal, MakeClosure and GetCaptured.       *)
(* vm.rs has no arm for these opcodes, which the compiler emits; they are  *)
(* modelled after the description of the opcodes in the specification.     *)
(***************************************************************************)
GetLocal ==
  /\ Dispatch(OpGetLocal)
  /\ Apply(LET address == next_word(1)
               value == stack_get(vm, Unwrap(address))
           IN IF address = None THEN RuntimeError(vm)
              ELSE IF no_frame(vm) THEN Panic(vm)
              ELSE IF value = None THEN RuntimeError(vm)
              ELSE Go(stack_push(vm, Unwrap(value)), 1), 1)

GetGlobal ==
  /\ Dispatch(OpGetGlobal)
  /\ Apply(LET variable_name == constant_at(2)
           IN IF variable_name = None \/ Unwrap(variable_name).t # "String"
              THEN RuntimeError(vm)
              ELSE IF Unwrap(variable_name).s \notin DOMAIN globals
              THEN RuntimeError(vm)
              ELSE IF no_frame(vm) THEN Panic(vm)
              ELSE Go(stack_push(vm, globals[Unwrap(variable_name).s]), 2), 1)

\* the descriptor f with every capture materialized whose frame and slot
\* hold a value on the value stack
materialize(m, f) ==
  LET held(c) == /\ c.frame < Len(m.stack)
                 /\ c.address < Len(m.stack[c.frame + 1])
      value(c) == m.stack[c.frame + 1][c.address + 1]
  IN [f EXCEPT !.captures =
        [nm \in DOMAIN @ |->
           IF held(@[nm])
           THEN populate_capture(f, nm, value(@[nm])).captures[nm]
           ELSE @[nm]]]

\* two descriptors of one function: they differ in their captures at most
same_function(f, g) ==
  f.name = g.name /\ f.arity = g.arity /\ f.codes = g.codes

\* MakeClosure for the function at an address of the function table: its
\* descriptor is materialized in place, in the function table and in the
\* constants that hold this function
make_closure(m, address) ==
  LET f == m.functions[address + 1][1]
      made == materialize(m, f)
  IN [m EXCEPT
        !.functions[address + 1][1] = made,
        !.constants =
          [i \in 1..Len(@) |->
             IF @[i].t = "Function" /\ same_function(@[i].f, f)
             THEN Function(made) ELSE @[i]]]

MakeClosure ==
  /\ Dispatch(OpMakeClosure)
  /\ Apply(LET address == constant_at(2)
           IN IF address = None \/ Unwrap(address).t # "Number"
              THEN RuntimeError(vm)
              ELSE IF as_u128(Unwrap(address)) >= Len(functions)
              THEN RuntimeError(vm)
              ELSE Go(make_closure(vm, as_u128(Unwrap(address))), 2), 1)

GetCaptured ==
  /\ Dispatch(OpGetCaptured)
  /\ Apply(LET variable_name == constant_at(2)
               value == get_capture(current.function, Unwrap(variable_name).s)
           IN IF variable_name = None \/ Unwrap(variable_name).t # "String"
              THEN RuntimeError(vm)
              ELSE IF value = None THEN RuntimeError(vm)
              ELSE IF no_frame(vm) THEN Panic(vm)
              ELSE Go(stack_push(vm, Unwrap(value)), 2), 1)

(***************************************************************************)
(* The source texts handed to interpret, as lexeme sequences: the programs *)
(* of the tests of the repository (vm.rs, tests.rs) and variations of      *)
(* them over the bounded values below.                                     *)
(***************************************************************************)
MaxNum == 2

MaxLoop == 3

Nums == (0 - MaxNum)..MaxNum

\* the lexemes of an integer literal: a negative one is `-` and a number
Lit(i) == IF i < 0 THEN <<"-", ToString(0 - i)>> ELSE <<ToString(i)>>

\* the literal expressions the programs take as operands
Literals ==
  {<<"nil">>, <<"false">>, <<"true">>, <<"0">>, <<"1">>, <<"\"\"">>,
   <<"\"a\"">>}

Src(name, args, text) == [name |-> name, args |-> args, text |-> text]

scope_text ==
  <<"let", "a", "=", "\"global\"", ";",
    "{", "let", "b", "=", "\"local\"", ";",
         "print", "(", "a", ")", ";",
         "println", "(", "b", ")", ";", "}",
    "print", "(", "b", ")", ";">>

nested_scope_text ==
  <<"let", "a", "=", "\"global\"", ";",
    "{", "let", "b", "=", "\"local1\"", ";",
         "{", "let", "c", "=", "\"local2\"", ";",
              "print", "(", "a", ",", "b", ")", ";",
              "println", "(", "c", ")", ";", "}",
         "print", "(", "c", ")", ";", "}",
    "print", "(", "b", ")", ";">>

\* fun add(a, b) { return a+b; } print(add(x, y));
simple_function_text(x, y) ==
  <<"fun", "add", "(", "a", ",", "b", ")", "{",
    "return", "a", "+", "b", ";", "}",
    "print", "(", "add", "(">> \o Lit(x) \o <<",">> \o Lit(y)
  \o <<")", ")", ";">>

\* fun pair(a, b) { return a <> "-" <> b; } print(pair(x, y));
pair_text(x, y) ==
  <<"fun", "pair", "(", "a", ",", "b", ")", "{",
    "return", "a", "<>", "\"-\"", "<>", "b", ";", "}",
    "print", "(", "pair", "(">> \o x \o <<",">> \o y \o <<")", ")", ";">>

function_with_no_return_text ==
  <<"fun", "add", "(", "a", ",", "b", ")", "{",
    "println", "(", "a", "+", "b", ")", ";", "}",
    "print", "(", "add", "(", "2", ",", "3", ")", ")", ";">>

\* fun f(a) { if a { return 1; } } f(x);
if_return_text(x) ==
  <<"fun", "f", "(", "a", ")", "{",
    "if", "a", "{", "return", "1", ";", "}", "}",
    "f", "(">> \o x \o <<")", ";">>

inner_function_text ==
  <<"fun", "outer", "(", ")", "{",
    "fun", "inner", "(", ")", "{", "println", "(", "\"inside\"", ")", ";", "}",
    "inner", "(", ")", ";", "}",
    "outer", "(", ")", ";">>

inner_function_only_seen_inside_text ==
  <<"fun", "outer", "(", ")", "{",
    "fun", "inner", "(", ")", "{", "println", "(", "\"inside\"", ")", ";", "}",
    "inner", "(", ")", ";", "}",
    "inner", "(", ")", ";">>

\* as above, and the call of inner from the body of a sibling function,
\* after calls many calls of outer
sibling_text(calls_of_outer) ==
  <<"fun", "outer", "(", ")", "{",
    "fun", "inner", "(", ")", "{", "println", "(", "\"inside\"", ")", ";", "}",
    "inner", "(", ")", ";", "}",
    "fun", "other", "(", ")", "{", "inner", "(", ")", ";", "}">>
  \o (IF calls_of_outer > 0 THEN <<"outer", "(", ")", ";">> ELSE <<>>)
  \o <<"other", "(", ")", ";">>

local_variable_text ==
  <<"let", "x", "=", "\"global\"", ";",
    "fun", "outer", "(", ")", "{",
    "let", "x", "=", "\"local\"", ";",
    "println", "(", "x", ")", ";", "}",
    "outer", "(", ")", ";">>

\* the function returned by creator, bound to the variable of that name
first_class_function_text(variable) ==
  <<"fun", "creator", "(", ")", "{",
    "fun", "join", "(", "a", ",", "b", ")", "{",
    "return", "a", "<>", "b", ";", "}",
    "return", "join", ";", "}",
    "let", variable, "=", "creator", "(", ")", ";",
    "println", "(", variable, "(", "\"U-\"", ",", "235", ")", ")", ";">>

global_while_text ==
  <<"let", "a", "=", "2", ";", "let", "b", "=", "5", ";",
    "while", "a", "*", "b", "!=", "-", "2", "{",
    "print", "(", "a", ",", "b", ")", ";",
    "a", "=", "a", "-", "1", ";",
    "b", "=", "b", "-", "1", ";", "}">>

\* let n = x; while n { print(n); n = n - 1; } print("x");
countdown_text(x) ==
  <<"let", "n", "=">> \o Lit(x) \o
  <<";", "while", "n", "{", "print", "(", "n", ")", ";",
    "n", "=", "n", "-", "1", ";", "}", "print", "(", "\"x\"", ")", ";">>

\* fun side() { print("y"); return 2; } print(x and side());
and_text(x) ==
  <<"fun", "side", "(", ")", "{", "print", "(", "\"y\"", ")", ";",
    "return", "2", ";", "}",
    "print", "(">> \o x \o <<"and", "side", "(", ")", ")", ";">>

or_text(x) ==
  <<"fun", "side", "(", ")", "{", "print", "(", "\"y\"", ")", ";",
    "return", "2", ";", "}",
    "print", "(">> \o x \o <<"or", "side", "(", ")", ")", ";">>

\* let c = x; fun f() { while c { return 1; } return 2; } print(f());
return_in_while_text(x) ==
  <<"let", "c", "=">> \o x \o
  <<";", "fun", "f", "(", ")", "{",
    "while", "c", "{", "return", "1", ";", "}",
    "return", "2", ";", "}",
    "print", "(", "f", "(", ")", ")", ";">>

closure_local_text ==
  <<"let", "x", "=", "\"global\"", ";", "let", "y", "=", "\"global\"", ";",
    "fun", "outer", "(", ")", "{",
    "let", "x", "=", "\"local\"", ";",
    "fun", "inner", "(", ")", "{",
    "println", "(", "x", ")", ";", "println", "(", "y", ")", ";", "}",
    "inner", "(", ")", ";", "}",
    "outer", "(", ")", ";">>

\* the enclosing function assigns x after it has declared inner
closure_assign_text(x, y) ==
  <<"fun", "outer", "(", ")", "{",
    "let", "x", "=">> \o x \o
  <<";", "fun", "inner", "(", ")", "{", "print", "(", "x", ")", ";", "}",
    "x", "=">> \o y \o
  <<";", "inner", "(", ")", ";", "print", "(", "x", ")", ";", "}",
    "outer", "(", ")", ";">>

\* fun make_closure(a, b) { fun join(c) { return a <> b <> c; }
\*   return join; }
\* let join = make_closure(x, y); println(join(235));
closure_parameter_text(x, y) ==
  <<"fun", "make_closure", "(", "a", ",", "b", ")", "{",
    "fun", "join", "(", "c", ")", "{",
    "return", "a", "<>", "b", "<>", "c", ";", "}",
    "return", "join", ";", "}",
    "let", "join", "=", "make_closure", "(">> \o x \o <<",">> \o y \o
  <<")", ";", "println", "(", "join", "(", "235", ")", ")", ";">>

\* fun outer() { let x = 1; fun inner() { x = 2; } inner(); } outer();
closure_set_text ==
  <<"fun", "outer", "(", ")", "{", "let", "x", "=", "1", ";",
    "fun", "inner", "(", ")", "{", "x", "=", "2", ";", "}",
    "inner", "(", ")", ";", "}", "outer", "(", ")", ";">>

top_level_return_text == <<"print", "(", "1", ")", ";", "return", "1", ";">>

\* print(x op y); for a binary operator
binary_text(x, op, y) ==
  <<"print", "(">> \o Lit(x) \o <<op>> \o Lit(y) \o <<")", ";">>

\* print(op x); for a unary operator and a literal expression
unary_text(op, x) == <<"print", "(", op>> \o x \o <<")", ";">>

\* print(native(x));
native_text(native, x) ==
  <<"print", "(", native, "(">> \o x \o <<")", ")", ";">>

\* source texts the compiler rejects
rejected_texts ==
  {<<"let", "=", "1", ";">>,
   <<"let", "a", "=", "1">>,
   <<"print", "(", "\"a\"", ")", ";", "a", "+", "=", "1", ";">>,
   <<"fun", "print", "(", ")", "{", "}">>,
   <<"{", "let", "a", ";", "let", "a", ";", "}">>}

\* the operands of the programs on truthiness: the literals, negative zero,
\* NaN, infinity and a function
Operands ==
  Literals \cup {<<"-", "0">>, <<"(", "0", "/", "0", ")">>,
                 <<"(", "1", "/", "0", ")">>, <<"side">>}

\* where the two `let` of one name of the program "let" are
LetCases ==
  {"top", "block", "inner_block", "function_body", "parameter", "while_body",
   "nested", "sibling", "parameter_nested", "top_nested", "sink"}

\* the operands of the programs on div: the dividends and the divisors
Dividends ==
  {<<"nil">>, <<"7">>, <<"-", "7">>, <<"(", "7", "/", "2", ")">>,
   <<"-", "(", "1", "/", "0", ")">>}

Divisors ==
  {<<"\"a\"">>, <<"0">>, <<"-", "0">>, <<"2">>, <<"-", "2">>, <<"-", "1">>,
   <<"(", "1", "/", "2", ")">>, <<"(", "0", "/", "0", ")">>,
   <<"(", "1", "/", "0", ")">>}

\* the statements that precede the `let` of the programs on slots: none,
\* an expression statement, a call whose result is unused, a sink, a block
\* that has been exited
Preceding ==
  {<<>>, <<"1", ";">>, <<"f", "(", ")", ";">>, <<"let", "_", "=", "1", ";">>,
   <<"{", "let", "b", "=", "1", ";", "}">>, <<"{", "}">>}

\* the operands of the programs on operand types: one or two values of
\* every variant, the function side among them
MixedOperands ==
  {<<"nil">>, <<"false">>, <<"true">>, <<"0">>, <<"1">>, <<"\"a\"">>,
   <<"side">>}

ArithmeticOperators == {"+", "*", "/", "%"}

ComparisonOperators == {">=", ">", "<=", "<"}

\* the second and third operand of the programs with two operators
Minuends == 0..MaxNum

\* the values captured by the two closures of a program
Captured == {<<"0">>, <<"1">>, <<"\"a\"">>}

\* n copies of a lexeme sequence
RECURSIVE Repeat(_, _)
Repeat(text, n) == IF n = 0 THEN <<>> ELSE text \o Repeat(text, n - 1)

\* further programs, by name: variations of the programs of the tests in
\* which a function is called more than once, a `while` is reached more than
\* once, or a `return` is inside nested loops
program_text(name, n) ==
  CASE name = "outer_calls" ->
         \* test::inner_function with n calls of outer
         <<"fun", "outer", "(", ")", "{",
           "fun", "inner", "(", ")", "{",
           "println", "(", "\"inside\"", ")", ";", "}",
           "inner", "(", ")", ";", "}">>
         \o Repeat(<<"outer", "(", ")", ";">>, n)
    [] name = "while_in_function" ->
         \* let k = 1; fun f() { while k { print(k); k = k - 1; } k = 1; }
         \* and n calls of f
         <<"let", "k", "=", "1", ";",
           "fun", "f", "(", ")", "{",
           "while", "k", "{", "print", "(", "k", ")", ";",
           "k", "=", "k", "-", "1", ";", "}",
           "k", "=", "1", ";", "}">>
         \o Repeat(<<"f", "(", ")", ";">>, n)
    [] name = "nested_while" ->
         \* let i = n; let j = 0;
         \* while i { j = 1; while j { print(i); j = j - 1; } i = i - 1; }
         <<"let", "i", "=">> \o Lit(n) \o
         <<";", "let", "j", "=", "0", ";",
           "while", "i", "{", "j", "=", "1", ";",
           "while", "j", "{", "print", "(", "i", ")", ";",
           "j", "=", "j", "-", "1", ";", "}",
           "i", "=", "i", "-", "1", ";", "}">>
    [] name = "falsey" ->
         \* fun side() { } print(not x); if x { print("a"); } else { print("b"); }
         <<"fun", "side", "(", ")", "{", "}", "print", "(", "not">> \o n \o
         <<")", ";", "if">> \o n \o
         <<"{", "print", "(", "\"a\"", ")", ";", "}",
           "else", "{", "print", "(", "\"b\"", ")", ";", "}">>
    [] name = "mixed" ->
         \* fun side() { } print(x op y); and print(op y); for an empty x
         <<"fun", "side", "(", ")", "{", "}", "print", "(">> \o n[1]
         \o <<n[2]>> \o n[3] \o <<")", ";">>
    [] name = "underflow" ->
         \* print(1) leaves no value on the frame: an opcode after it that
         \* needs the value finds the frame too short
         (CASE n = "unary" -> <<"-", "print", "(", "1", ")", ";">>
            [] n = "binary" -> <<"print", "(", "1", ")", "+", "1", ";">>
            [] n = "comparison" -> <<"print", "(", "1", ")", "<", "1", ";">>
            [] n = "def_global" ->
                 <<"let", "a", "=", "print", "(", "1", ")", ";">>
            [] n = "set_global" ->
                 <<"let", "a", "=", "1", ";",
                   "a", "=", "print", "(", "1", ")", ";">>
            [] n = "set_local" ->
                 <<"{", "let", "a", "=", "print", "(", "1", ")", ";",
                   "let", "b", "=", "print", "(", "1", ")", ";",
                   "b", "=", "2", ";", "}">>
            [] n = "call" ->
                 <<"fun", "f", "(", "a", ")", "{", "}",
                   "f", "(", "print", "(", "1", ")", ")", ";">>
            [] n = "native" ->
                 <<"is_nil", "(", "print", "(", "1", ")", ")", ";">>)
    [] name = "read_function" ->
         \* a call of f and a read of f at the same place, by the place n
         (CASE n = "top" ->
                 <<"fun", "f", "(", ")", "{", "}",
                   "f", "(", ")", ";", "print", "(", "f", ")", ";">>
            [] n = "block" ->
                 <<"fun", "f", "(", ")", "{", "}",
                   "{", "f", "(", ")", ";", "print", "(", "f", ")", ";", "}">>
            [] n = "function_body" ->
                 <<"fun", "f", "(", ")", "{", "}",
                   "fun", "g", "(", ")", "{",
                   "f", "(", ")", ";", "print", "(", "f", ")", ";", "}",
                   "g", "(", ")", ";">>
            [] n = "inner" ->
                 <<"fun", "g", "(", ")", "{", "fun", "f", "(", ")", "{", "}",
                   "f", "(", ")", ";", "print", "(", "f", ")", ";", "}",
                   "g", "(", ")", ";">>)
    [] name = "fun" ->
         \* two declarations of one function name, by their scopes n
         (CASE n = "native" -> <<"fun", "clock", "(", ")", "{", "}">>
            [] n = "same_scope" ->
                 <<"fun", "f", "(", ")", "{", "}", "fun", "f", "(", ")", "{", "}">>
            [] n = "same_body" ->
                 <<"fun", "g", "(", ")", "{", "fun", "f", "(", ")", "{", "}",
                   "fun", "f", "(", ")", "{", "}", "}">>
            [] n = "shadow" ->
                 <<"fun", "f", "(", ")", "{", "fun", "f", "(", ")", "{", "}", "}">>
            [] n = "nested" ->
                 <<"fun", "f", "(", ")", "{", "}",
                   "fun", "g", "(", ")", "{", "fun", "f", "(", ")", "{", "}", "}">>
            [] n = "helpers" ->
                 <<"fun", "f", "(", ")", "{", "fun", "helper", "(", ")", "{", "}", "}",
                   "fun", "g", "(", ")", "{", "fun", "helper", "(", ")", "{", "}", "}">>)
    [] name = "closures" ->
         \* fun make_closure(a) { fun join(c) { return a <> c; } return join; }
         \* two closures of join, with a = n[2] and then a = n[3]; the one
         \* bound to the name join (the first or the second) is invoked
         <<"fun", "make_closure", "(", "a", ")", "{",
           "fun", "join", "(", "c", ")", "{",
           "return", "a", "<>", "c", ";", "}",
           "return", "join", ";", "}",
           "let", (IF n[1] = "first" THEN "join" ELSE "other"), "=",
           "make_closure", "(">> \o n[2] \o <<")", ";",
           "let", (IF n[1] = "first" THEN "other" ELSE "join"), "=",
           "make_closure", "(">> \o n[3] \o <<")", ";",
           "println", "(", "join", "(", "235", ")", ")", ";">>
    [] name = "minus" ->
         \* print(x - y - z); or print(x - y * z);
         <<"print", "(">> \o Lit(n[2]) \o <<"-">> \o Lit(n[3])
         \o <<n[1]>> \o Lit(n[4]) \o <<")", ";">>
    [] name = "unterminated" ->
         \* a source text that ends inside the construct n
         (CASE n = "parameters" -> <<"fun", "f", "(">>
            [] n = "parameter" -> <<"fun", "f", "(", "a">>
            [] n = "arguments" -> <<"print", "(">>
            [] n = "argument" -> <<"print", "(", "1">>
            [] n = "block" -> <<"{", "let", "a", "=", "1", ";">>
            [] n = "function_body" -> <<"fun", "f", "(", ")", "{">>
            [] n = "while_body" -> <<"while", "true", "{">>
            [] n = "expression" -> <<"1", "+">>
            [] n = "let" -> <<"let", "a", "=">>)
    [] name = "div" ->
         <<"print", "(", "div", "(">> \o n[1] \o <<",">> \o n[2]
         \o <<")", ")", ";">>
    [] name = "slot" ->
         \* a local a, assigned after the statements n of the same block
         <<"fun", "f", "(", ")", "{", "}", "{">> \o n
         \o <<"let", "a", "=", "5", ";", "a", "=", "7", ";", "}">>
    [] name = "sink" ->
         \* `let _ = side();` by the scope n of the `let`
         <<"fun", "side", "(", ")", "{", "print", "(", "\"x\"", ")", ";", "}">>
         \o (CASE n = "top" -> <<"let", "_", "=", "side", "(", ")", ";">>
               [] n = "block" ->
                    <<"{", "let", "_", "=", "side", "(", ")", ";", "}">>
               [] n = "function_body" ->
                    <<"fun", "g", "(", ")", "{",
                      "let", "_", "=", "side", "(", ")", ";", "}",
                      "g", "(", ")", ";">>)
    [] name = "let" ->
         \* two `let` of one name, by the scopes of the two
         (CASE n = "top" -> <<"let", "a", "=", "1", ";", "let", "a", "=", "2", ";">>
            [] n = "block" ->
                 <<"{", "let", "a", "=", "1", ";", "let", "a", "=", "2", ";", "}">>
            [] n = "inner_block" ->
                 <<"{", "{", "let", "a", ";", "let", "a", ";", "}", "}">>
            [] n = "function_body" ->
                 <<"fun", "f", "(", ")", "{", "let", "a", ";", "let", "a", ";", "}">>
            [] n = "parameter" ->
                 <<"fun", "f", "(", "a", ")", "{", "let", "a", ";", "}">>
            [] n = "while_body" ->
                 <<"while", "false", "{", "let", "a", ";", "let", "a", ";", "}">>
            [] n = "nested" ->
                 <<"{", "let", "a", ";", "{", "let", "a", ";", "}", "}">>
            [] n = "sibling" ->
                 <<"{", "let", "a", ";", "}", "{", "let", "a", ";", "}">>
            [] n = "parameter_nested" ->
                 <<"fun", "f", "(", "a", ")", "{", "{", "let", "a", ";", "}", "}">>
            [] n = "top_nested" ->
                 <<"let", "a", "=", "1", ";", "{", "let", "a", "=", "2", ";", "}">>
            [] n = "sink" ->
                 <<"{", "let", "_", "=", "1", ";", "let", "_", "=", "2", ";", "}">>)
    [] name = "print_of_print" ->
         \* print(print(1)); and the same with println, by n
         <<"print", "(", n, "(", "1", ")", ")", ";">>
    [] name = "print_args" ->
         \* print("a"); native(1, "b", true); print(nil + 1); print("x");
         \* with the first n[2] of the three arguments, for the native n[1]
         <<"print", "(", "\"a\"", ")", ";", n[1], "(">>
         \o SubSeq(<<"1", ",", "\"b\"", ",", "true">>, 1, Max({0, 2 * n[2] - 1}))
         \o <<")", ";", "print", "(", "nil", "+", "1", ")", ";",
              "print", "(", "\"x\"", ")", ";">>
    [] name = "arity" ->
         \* fun f(a) { print("a"); } f(1, ..., n);
         <<"fun", "f", "(", "a", ")", "{", "print", "(", "\"a\"", ")", ";", "}",
           "f", "(">>
         \o SubSeq(<<"1", ",", "2", ",", "3">>, 1, Max({0, 2 * n - 1}))
         \o <<")", ";">>
    [] name = "nested_error" ->
         \* fun g() { print(1 + nil); } fun f() { g(); print("a"); }
         \* while true { f(); print("b"); } print("x");
         <<"fun", "g", "(", ")", "{", "print", "(", "1", "+", "nil", ")", ";", "}",
           "fun", "f", "(", ")", "{", "g", "(", ")", ";",
           "print", "(", "\"a\"", ")", ";", "}",
           "while", "true", "{", "f", "(", ")", ";",
           "print", "(", "\"b\"", ")", ";", "}",
           "print", "(", "\"x\"", ")", ";">>
    [] name = "return_in_nested_while" ->
         \* let c = n; fun f() { while c { while c { return 1; } } return 2; }
         \* print(f());
         <<"let", "c", "=">> \o Lit(n) \o
         <<";", "fun", "f", "(", ")", "{",
           "while", "c", "{", "while", "c", "{", "return", "1", ";", "}", "}",
           "return", "2", ";", "}",
           "print", "(", "f", "(", ")", ")", ";">>

BinaryOperators ==
  {"+", "-", "*", "/", "%", "==", "!=", ">=", ">", "<=", "<", "<>"}

Natives ==
  {"parse", "is_nil", "type_of", "is_number", "is_string", "is_boolean",
   "is_function", "clock", "div"}

Sources ==
  {Src("scope", <<>>, scope_text),
   Src("nested_scope", <<>>, nested_scope_text),
   Src("function_with_no_return", <<>>, function_with_no_return_text),
   Src("inner_function", <<>>, inner_function_text),
   Src("inner_function_only_seen_inside", <<>>,
       inner_function_only_seen_inside_text),
   Src("local_variable", <<>>, local_variable_text),
   Src("global_while", <<>>, global_while_text),
   Src("closure_local", <<>>, closure_local_text),
   Src("closure_set", <<>>, closure_set_text),
   Src("top_level_return", <<>>, top_level_return_text)}
  \cup {Src("simple_function", <<x, y>>, simple_function_text(x, y)) :
          x \in Nums, y \in Nums}
  \cup {Src("pair", <<x, y>>, pair_text(x, y)) : x \in Literals, y \in Literals}
  \cup {Src("if_return", <<x>>, if_return_text(x)) : x \in Literals}
  \cup {Src("sibling", <<n>>, sibling_text(n)) : n \in 0..1}
  \cup {Src("first_class_function", <<v>>, first_class_function_text(v)) :
          v \in {"join", "j"}}
  \cup {Src("countdown", <<n>>, countdown_text(n)) : n \in 0..MaxLoop}
  \cup {Src("and", <<x>>, and_text(x)) : x \in Literals \cup {<<"side">>}}
  \cup {Src("or", <<x>>, or_text(x)) : x \in Literals \cup {<<"side">>}}
  \cup {Src("return_in_while", <<x>>, return_in_while_text(x)) :
          x \in {<<"false">>, <<"true">>}}
  \cup {Src("closure_assign", <<x, y>>, closure_assign_text(x, y)) :
          x \in Literals, y \in Literals}
  \cup {Src("closure_parameter", <<x, y>>, closure_parameter_text(x, y)) :
          x \in Literals, y \in Literals}
  \cup {Src("binary", <<x, op, y>>, binary_text(x, op, y)) :
          x \in Nums, op \in BinaryOperators, y \in Nums}
  \cup {Src("unary", <<op, x>>, unary_text(op, x)) :
          op \in {"not", "-"}, x \in Literals}
  \cup {Src("native", <<f, x>>, native_text(f, x)) :
          f \in Natives, x \in Literals \cup {<<"1", ",", "0">>, <<>>}}
  \cup {Src("rejected", <<>>, text) : text \in rejected_texts}
  \cup {Src(name, <<n>>, program_text(name, n)) :
          name \in {"outer_calls", "while_in_function"}, n \in 2..MaxLoop}
  \cup {Src("nested_while", <<n>>, program_text("nested_while", n)) :
          n \in 1..MaxLoop}
  \cup {Src("falsey", <<x>>, program_text("falsey", x)) : x \in Operands}
  \cup {Src("let", <<x>>, program_text("let", x)) : x \in LetCases}
  \cup {Src("print_of_print", <<x>>, program_text("print_of_print", x)) :
          x \in {"print", "println"}}
  \cup {Src("print_args", <<f, k>>, program_text("print_args", <<f, k>>)) :
          f \in {"print", "println"}, k \in 0..3}
  \cup {Src("arity", <<n>>, program_text("arity", n)) : n \in 0..3}
  \cup {Src("nested_error", <<>>, program_text("nested_error", 0))}
  \cup {Src("repl", <<session, 0>>, <<>>) : session \in Sessions}
  \cup {Src("closures", n, program_text("closures", n)) :
          n \in {t \in {"first", "second"} \X Captured \X Captured :
                   t[2] # t[3]}}
  \cup {Src("minus", n, program_text("minus", n)) :
          n \in {"-", "*"} \X Nums \X Minuends \X Minuends}
  \cup {Src("unterminated", <<x>>, program_text("unterminated", x)) :
          x \in {"parameters", "parameter", "arguments", "argument", "block",
                 "function_body", "while_body", "expression", "let"}}
  \cup {Src("fun", <<x>>, program_text("fun", x)) :
          x \in {"native", "same_scope", "same_body", "shadow", "nested",
                 "helpers"}}
  \cup {Src("read_function", <<x>>, program_text("read_function", x)) :
          x \in {"top", "block", "function_body", "inner"}}
  \cup {Src("underflow", <<x>>, program_text("underflow", x)) :
          x \in {"unary", "binary", "comparison", "def_global", "set_global",
                 "set_local", "call", "native"}}
  \cup {Src("mixed", <<x, op, y>>, program_text("mixed", <<x, op, y>>)) :
          x \in MixedOperands,
          op \in ArithmeticOperators \cup ComparisonOperators,
          y \in MixedOperands}
  \cup {Src("mixed", <<<<>>, "-", y>>, program_text("mixed", <<<<>>, "-", y>>)) :
          y \in MixedOperands}
  \cup {Src("sink", <<x>>, program_text("sink", x)) :
          x \in {"top", "block", "function_body"}}
  \cup {Src("slot", <<x>>, program_text("slot", x)) : x \in Preceding}
  \cup {Src("div", <<x, y>>, program_text("div", <<x, y>>)) :
          x \in Dividends, y \in Divisors}
  \cup {Src("return_in_nested_while", <<n>>,
              program_text("return_in_nested_while", n)) : n \in 0..1}

\* VM::new, and the source text interpret is called with
Init ==
  /\ source \in Sources
  /\ phase = IF source.name = "repl" THEN "prompt" ELSE "start"
  /\ result = "None"
  /\ errors = <<>>
  /\ stack = << <<>> >>
  /\ constants = <<>>
  /\ globals = <<>>
  /\ functions = <<>>
  /\ loops = <<>>
  /\ stdout = <<>>
  /\ calls = <<>>
  /\ executed = 0

Next ==
  \/ Interpret
  \/ RunEnd
  \/ Return
  \/ Constant
  \/ Negate
  \/ Not
  \/ Concat
  \/ Add
  \/ Multiply
  \/ Rem
  \/ Divide
  \/ Equal
  \/ NotEqual
  \/ GreaterEqual
  \/ Greater
  \/ LessEqual
  \/ Less
  \/ Pop
  \/ PushNil
  \/ DefGlobal
  \/ SetGlobal
  \/ SetLocal
  \/ JumpIfFalse
  \/ Jump
  \/ Loop
  \/ Call
  \/ ClearScope
  \/ Invalid
  \/ GetLocal
  \/ GetGlobal
  \/ MakeClosure
  \/ GetCaptured
  \/ Readline
  \/ ReadlineFails

Spec == Init /\ [][Next]_vars

(***************************************************************************)
(* Properties.  The programs print literal expressions; the tables below   *)
(* give the value of each literal expression and the text print shows for  *)
(* it.                                                                     *)
(***************************************************************************)
IsPrefix(s, t) == Len(s) <= Len(t) /\ SubSeq(t, 1, Len(s)) = s

LiteralValue ==
  (<<"nil">> :> Nil) @@ (<<"false">> :> Boolean(FALSE))
  @@ (<<"true">> :> Boolean(TRUE)) @@ (<<"0">> :> Number(0))
  @@ (<<"1">> :> Number(1)) @@ (<<"\"\"">> :> String(""))
  @@ (<<"\"a\"">> :> String("a"))

Shown ==
  (<<"nil">> :> "nil") @@ (<<"false">> :> "false") @@ (<<"true">> :> "true")
  @@ (<<"0">> :> "0") @@ (<<"1">> :> "1") @@ (<<"\"\"">> :> "")
  @@ (<<"\"a\"">> :> "a")

FalseyLiterals == {<<"nil">>, <<"false">>, <<"0">>, <<"\"\"">>}

\* the output so far is the start of the expected output, and a finished
\* interpret has the expected result and the whole expected output
Outcome(expected_result, expected_stdout) ==
  /\ IsPrefix(stdout, expected_stdout)
  /\ phase = "done" => result = expected_result /\ stdout = expected_stdout

\* C1: interpret returns CompileError exactly when the compiler recorded an
\* error, and then no opcode was executed; when the compiler recorded no
\* error, interpret returns Ok or RuntimeError.
C1_InterpretResult ==
  phase = "done" =>
    /\ (result = "CompileError") <=> (errors # <<>>)
    /\ result = "CompileError" => executed = 0
    /\ errors = <<>> => result \in {"Ok", "RuntimeError"}

\* C2: a variable declared by `let` in a block is readable inside the block
\* and its nested blocks, and not after the closing brace: the read after
\* the block is a GetGlobal of that name, which fails with RuntimeError
\* after the output of the statements before it.
C2_ScopeIsolation ==
  /\ source.name = "scope" =>
       /\ Outcome("RuntimeError", <<"global", "local", "\n">>)
       /\ phase = "done" =>
            /\ OpCodeFrom(code[current.ip + 1]) = OpGetGlobal
            /\ constant_at(2) = Some(String("b"))
  /\ source.name = "nested_scope" =>
       /\ Outcome("RuntimeError", <<"global", "local1", "local2", "\n">>)
       /\ phase = "done" =>
            /\ OpCodeFrom(code[current.ip + 1]) = OpGetGlobal
            /\ constant_at(2) = Some(String("c"))

C2_Witness ==
  /\ source.name = "nested_scope"
  /\ phase = "done"
  /\ result = "RuntimeError"
  /\ stdout = <<"global", "local1", "local2", "\n">>
  /\ constant_at(2) = Some(String("c"))

\* C3: a Call of a user function with n arguments removes the n topmost
\* values from the caller's frame and makes them slots 0..n-1 of the new
\* frame, in the order of the call site; the call add(x, y) of
\* `fun add(a, b) { return a+b; }` leaves exactly x+y on the caller's frame.
C3_Step ==
  /\ (Len(calls') = Len(calls) + 1 /\ Last(calls').kind = "call") =>
       LET n == as_u128(Unwrap(constant_at(4)))
           caller == Last(stack)
       IN /\ Len(stack') = Len(stack) + 1
          /\ Last(stack') = SubSeq(caller, Len(caller) - n + 1, Len(caller))
          /\ stack'[Len(stack)] = SubSeq(caller, 1, Len(caller) - n)
  /\ (source.name = "simple_function" /\ Len(calls) = 2 /\ Len(calls') = 1) =>
       stack' = << <<Number(source.args[1] + source.args[2])>> >>
  /\ (source.name = "simple_function" /\ phase' = "done") =>
       result' = "Ok"
  /\ (source.name = "pair" /\ phase' = "done") =>
       /\ result' = "Ok"
       /\ stdout' = <<Shown[source.args[1]] \o "-" \o Shown[source.args[2]]>>

C3_FunctionIdentity == [][C3_Step]_vars

C3_Witness ==
  /\ source.name = "pair"
  /\ source.args = << <<"1">>, <<"\"a\"">> >>
  /\ Len(calls) = 2
  /\ current.kind = "call"
  /\ current.ip = 0
  /\ stack = << <<>>, <<Number(1), String("a")>> >>

\* C4: a Call of a user function that completes Ok pops the frame of the
\* callee and pushes exactly one value onto the frame of the caller, on
\* every control path through the body.
C4_Step ==
  (Len(calls) > 1 /\ current.kind = "call" /\ calls' = Front(calls)) =>
    /\ Len(stack') = Len(stack) - 1
    /\ \E v \in {Nil} \cup {Last(stack)[i] : i \in 1..Len(Last(stack))} :
         stack' = [Front(stack) EXCEPT ![Len(stack) - 1] = Append(@, v)]

C4_CallPushesOneValue == [][C4_Step]_vars

\* C5: `while c body` evaluates c before every iteration, runs body once for
\* each truthy evaluation and stops at the first falsey one; every
\* evaluation sees the assignments of the iterations before it.
C5_While ==
  /\ source.name = "global_while" =>
       Outcome("Ok", <<"2", "5", "1", "4", "0", "3">>)
  /\ source.name = "countdown" =>
       LET n == source.args[1]
       IN Outcome("Ok", [i \in 1..n |-> ToString(n + 1 - i)] \o <<"x">>)

C5_Witness ==
  /\ source.name = "countdown"
  /\ source.args = <<MaxLoop>>
  /\ phase = "done"
  /\ Len(stdout) = MaxLoop + 1

\* the operand y of the programs `and` and `or` prints "y" and has value 2
Skipped == <<Shown[source.args[1]]>>

Evaluated == <<"y", "2">>

\* C6 as stated: in `x and y`, y is not executed and the value is x when x
\* is falsey; in `x or y`, y is not executed and the value is x when x is
\* truthy; in the remaining cases y is executed exactly once and the value
\* is the value of y.
C6_Original ==
  LET x == source.args[1]
  IN /\ source.name = "and" =>
          Outcome("Ok", IF x \in FalseyLiterals THEN Skipped ELSE Evaluated)
     /\ source.name = "or" =>
          IF x \in FalseyLiterals THEN Outcome("Ok", Evaluated)
          ELSE IF x \in Literals THEN Outcome("Ok", Skipped)
          ELSE phase = "done" => result = "Ok"

\* C6 for the values that have a truth value: x is nil, a boolean, a number
\* or a string.  When x is a function value the jump fails with
\* RuntimeError and y is not executed.
C6_ShortCircuit ==
  LET x == source.args[1]
  IN /\ (source.name = "and" /\ x \in Literals) =>
          Outcome("Ok", IF x \in FalseyLiterals THEN Skipped ELSE Evaluated)
     /\ (source.name = "or" /\ x \in Literals) =>
          Outcome("Ok", IF x \in FalseyLiterals THEN Evaluated ELSE Skipped)
     /\ (source.name \in {"and", "or"} /\ x \notin Literals) =>
          Outcome("RuntimeError", <<>>)

C6_Witness ==
  /\ source.name = "and"
  /\ source.args = << <<"1">> >>
  /\ phase = "done"
  /\ stdout = <<"y", "2">>

\* C7: the operand of every forward Jump or JumpIfFalse the VM reaches was
\* written by patch_jump and is the code length at the time of the patch,
\* less the operand address, less 1; a taken jump lands on the first word
\* emitted after that patch_jump call.
C7_JumpPatch ==
  (/\ phase = "running"
   /\ current.ip < chunk_size(code)
   /\ OpCodeFrom(code[current.ip + 1]) \in {OpJump, OpJumpIfFalse}) =>
    \E p \in current.function.patched :
      /\ p[1] = current.ip + 1
      /\ next_word(1) = Some(p[2] - p[1] - 1)
      /\ current.ip + 2 + Unwrap(next_word(1)) = p[2]

C9_FirstClass ==
  source.name = "first_class_function" => Outcome("Ok", <<"U-235", "\n">>)

\* C10: a Call by name of a function declared inside another function, from
\* code outside that function, yields RuntimeError.
C10_Step ==
  (/\ Dispatch(OpCall)
   /\ constant_at(6) = Some(String("inner"))
   /\ current.function.name \in {"##MAIN##", "other"}
   /\ source.name \in {"inner_function", "inner_function_only_seen_inside",
                       "sibling", "closure_local", "closure_assign"}) =>
    result' = "RuntimeError"

C10_InnerNotCallableOutside == [][C10_Step]_vars

\* the output of n executions of a piece of program whose output is `out`
RECURSIVE Outputs(_, _)
Outputs(out, n) == IF n = 0 THEN <<>> ELSE out \o Outputs(out, n - 1)

\* the texts print shows for n, n - 1, ..., 1
RECURSIVE Countdown(_)
Countdown(n) == IF n = 0 THEN <<>> ELSE <<ToString(n)>> \o Countdown(n - 1)

\* C11: a function declared inside the body of outer is callable from that
\* body on every call of outer: n calls of outer print "inside" n times and
\* interpret returns Ok.
C11_InnerOnEveryCall ==
  source.name = "outer_calls" =>
    Outcome("Ok", Outputs(<<"inside", "\n">>, source.args[1]))

\* C12: a `while` runs every time control reaches it: in a function called
\* n times the loop runs n times, and a loop nested in a loop runs in every
\* iteration of the enclosing loop.
C12_WhileEveryTime ==
  /\ source.name = "while_in_function" =>
       Outcome("Ok", Outputs(<<"1">>, source.args[1]))
  /\ source.name = "nested_while" =>
       Outcome("Ok", Countdown(source.args[1]))

\* C13: a `return e;` inside a `while` body of f, at any loop depth, ends
\* the call of f with the value of e: print(f()) prints 1 when the loops are
\* entered and 2 when they are not, and interpret returns Ok.
C13_ReturnThroughLoops ==
  /\ source.name = "return_in_while" =>
       Outcome("Ok", IF source.args[1] = <<"true">> THEN <<"1">> ELSE <<"2">>)
  /\ source.name = "return_in_nested_while" =>
       Outcome("Ok", IF source.args[1] = 1 THEN <<"1">> ELSE <<"2">>)
\* the values the falsey rule names
Falsey(v) ==
  \/ v = Nil
  \/ v = Boolean(FALSE)
  \/ v.t = "Number" /\ v.n = 0 /\ v.d = 1
  \/ v = String("")

\* C14: Not replaces a nil, boolean, number or string value v by
\* Boolean(TRUE) exactly when v is Nil, false, the number 0 or the empty
\* string, and by Boolean(FALSE) otherwise; JumpIfFalse jumps for exactly
\* the values for which Not yields TRUE; for a function value both end the
\* run with RuntimeError.
C14_Step ==
  LET v == Last(Last(stack))
      ended == phase' = "done" /\ result' = "RuntimeError"
  IN /\ (Dispatch(OpNot) /\ Last(stack) # <<>>) =>
          IF v.t = "Function" THEN ended
          ELSE stack' = [stack EXCEPT ![Len(stack)] =
                           Append(Front(@), Boolean(Falsey(v)))]
     /\ (Dispatch(OpJumpIfFalse) /\ Last(stack) # <<>>) =>
          IF v.t = "Function" THEN ended
          ELSE /\ stack' = stack
               /\ Last(calls').ip =
                    current.ip + 2
                    + (IF Falsey(v) THEN Unwrap(next_word(1)) ELSE 0)
     /\ (source.name = "falsey" /\ phase' = "done") =>
          LET x == source.args[1]
          IN IF x = <<"side">> THEN result' = "RuntimeError" /\ stdout' = <<>>
             ELSE /\ result' = "Ok"
                  /\ stdout' \in {<<"true", "b">>, <<"false", "a">>}
                  /\ stdout'[1] = "true" <=>
                       x \in FalseyLiterals \cup {<<"-", "0">>}

C14_FalseyLaw == [][C14_Step]_vars

C14_Witness ==
  /\ source.name = "falsey"
  /\ source.args = << <<"-", "0">> >>
  /\ phase = "done"
  /\ result = "Ok"
  /\ stdout = <<"true", "b">>
\* whether the compiler reported a variable as already defined
Redefined ==
  \E i \in 1..Len(errors) : errors[i] = "Variable is already defined"

NativeCall ==
  /\ Dispatch(OpCall)
  /\ constant_at(4) # None
  /\ constant_at(6) # None
  /\ Unwrap(constant_at(6)).t = "String"
  /\ resolve_nif(Unwrap(constant_at(6)).s)

\* C16: a native invoked by Call with n arguments, when it completes,
\* leaves the current frame with its length before minus n plus 1; the
\* values below the arguments and the other frames are unchanged.
C16_Step ==
  (NativeCall /\ phase' = "running") =>
    LET n == as_u128(Unwrap(constant_at(4)))
        frame == Last(stack)
    IN /\ Len(stack') = Len(stack)
       /\ Front(stack') = Front(stack)
       /\ Len(Last(stack')) = Len(frame) - n + 1
       /\ SubSeq(Last(stack'), 1, Len(frame) - n)
            = SubSeq(frame, 1, Len(frame) - n)

C16_NativeConvention == [][C16_Step]_vars
\* C17: print and println write the string forms of their arguments in the
\* order of the call site, for 0 to 3 arguments, println then writes one
\* newline entry; the output of an earlier statement precedes that of a
\* later one, and the output written before a RuntimeError stays.
C17_PrintOrder ==
  source.name = "print_args" =>
    Outcome("RuntimeError",
            <<"a">> \o SubSeq(<<"1", "b", "true">>, 1, source.args[2])
            \o (IF source.args[1] = "println" THEN <<"\n">> ELSE <<>>))

C17_Witness ==
  /\ source.name = "print_args"
  /\ source.args = <<"println", 3>>
  /\ phase = "done"
  /\ result = "RuntimeError"
  /\ stdout = <<"a", "1", "b", "true", "\n">>
\* the argument count of the Call about to be dispatched differs from the
\* arity of the native, or of the user function, its name resolves to
ArityMismatch ==
  /\ Dispatch(OpCall)
  /\ constant_at(2) # None /\ constant_at(4) # None /\ constant_at(6) # None
  /\ Unwrap(constant_at(6)).t = "String"
  /\ LET name == Unwrap(constant_at(6)).s
         args == as_u128(Unwrap(constant_at(4)))
         resolved == resolve_function(functions, constants, name,
                                      as_u128(Unwrap(constant_at(2))))
     IN IF name \in {"print", "println"} THEN FALSE
        ELSE IF name = "clock" THEN args # 0
        ELSE IF name = "div" THEN args # 2
        ELSE IF name \in NifNames THEN args # 1
        ELSE resolved # None /\ Unwrap(resolved).arity # args

\* C18: a Call whose argument count differs from the arity of the native
\* of fixed arity, or of the user function, it resolves to ends the run with
\* RuntimeError; no frame is pushed, the callee is not entered and the
\* arguments stay on the frame of the caller.  f of one parameter called
\* with n arguments runs exactly when n = 1.
C18_Step ==
  /\ ArityMismatch =>
       /\ phase' = "done" /\ result' = "RuntimeError"
       /\ stack' = stack /\ calls' = calls /\ stdout' = stdout
  /\ (source.name = "arity" /\ phase' = "done") =>
       IF source.args[1] = 1 THEN result' = "Ok" /\ stdout' = <<"a">>
       ELSE /\ result' = "RuntimeError"
            /\ stdout' = <<>>
            /\ Len(calls') = 1
            /\ stack' = << [i \in 1..source.args[1] |-> Number(i)] >>

C18_ArityMismatch == [][C18_Step]_vars

C18_Witness ==
  /\ source.name = "arity"
  /\ source.args = <<2>>
  /\ phase = "done"
  /\ result = "RuntimeError"
  /\ stack = << <<Number(1), Number(2)>> >>
\* C19: the step in which a handler fails ends every enclosing run with
\* RuntimeError: no invocation is resumed, no frame is popped, and no opcode
\* is executed afterwards.  An error three invocations deep (the Add of
\* `1 + nil`, which has popped nil) leaves the four frames on the value stack.
C19_Step ==
  /\ (phase = "running" /\ phase' = "done" /\ result' = "RuntimeError") =>
       /\ calls' = calls
       /\ Len(stack') = Len(stack)
       /\ Front(stack') = Front(stack)
       /\ executed' = executed + 1
  /\ phase = "done" => executed' = executed /\ stack' = stack
  /\ (source.name = "nested_error" /\ phase' = "done") =>
       /\ result' = "RuntimeError"
       /\ stdout' = <<>>
       /\ Len(calls') = 4
       /\ stack' = << <<>>, <<>>, <<>>, <<Number(1)>> >>

C19_ErrorPropagation == [][C19_Step]_vars

C19_Witness ==
  /\ source.name = "nested_error"
  /\ phase = "done"
  /\ result = "RuntimeError"
  /\ [i \in 1..Len(calls) |-> calls[i].kind] = <<"main", "loop", "call", "call">>
  /\ Len(stack) = 4
\* C20: in the REPL, interpret returns for every line, with Ok,
\* CompileError or RuntimeError, and repl then is at the prompt for the next
\* line; the next line runs on the same VM, so a global keeps the last
\* value an executed statement gave it; repl ends only when a readline
\* fails, and the exit status is then not 0.
C20_Step ==
  source.name = "repl" =>
    /\ phase' = "done" => result' \in {"Ok", "CompileError", "RuntimeError"}
    /\ phase = "done" =>
         /\ ENABLED ReadlineFails
         /\ source.args[2] < Len(repl_lines(source.args[1])) => ENABLED Readline
    /\ (phase \in {"prompt", "done"} /\ phase' # phase) =>
         /\ UNCHANGED <<stack, constants, globals, functions, loops, stdout>>
         /\ \/ phase' = "start"
            \/ phase' = "exited" /\ result' = "CliError"
    /\ phase = "exited" => result = "CliError" /\ main_exit(FALSE, result) # 0
    /\ source.args = <<"errors", 2>> /\ phase = "done" =>
         result = "RuntimeError" /\ globals["a"] = Number(2)
    /\ source.args = <<"errors", 3>> =>
         /\ globals["a"] = Number(2)
         /\ phase = "done" => result = "CompileError"
    /\ source.args = <<"errors", 4>> /\ phase = "done" =>
         result = "Ok" /\ globals["a"] = Number(3)
    /\ source.args = <<"continuation", 5>> /\ phase = "done" =>
         result = "Ok" /\ globals["a"] = Number(2)

C20_ReplContinues == [][C20_Step]_vars
\* the Call about to be dispatched is a call of div with two arguments on
\* the frame
DivCall ==
  /\ NativeCall
  /\ Unwrap(constant_at(6)).s = "div"
  /\ as_u128(Unwrap(constant_at(4))) = 2
  /\ Len(Last(stack)) >= 2

\* C21: a call of div with two arguments either continues with the two
\* arguments replaced by the integer quotient, truncated toward zero, of
\* the two numbers, or ends interpret with RuntimeError when an argument is
\* not a number; it never ends in a panic, whatever the divisor.
C21_Step ==
  DivCall =>
    LET frame == Last(stack)
        left == frame[Len(frame) - 1]
        right == frame[Len(frame)]
    IN IF left.t = "Number" /\ right.t = "Number"
       THEN /\ phase' = "running"
            /\ Len(Last(stack')) = Len(frame) - 1
            /\ (IsFinite(left) /\ IsFinite(right)) =>
                 Last(Last(stack'))
                   = Number(TruncDiv(left.n * right.d, left.d * right.n))
       ELSE phase' = "done" /\ result' = "RuntimeError"

C21_DivNeverAborts == [][C21_Step]_vars
\* C22: when the SetLocal of `a = 7` in `{ S let a = 5; a = 7; }` is
\* dispatched, for the preceding statements S of the same block, the slot
\* of its operand is the place of the frame that holds the value 5 of a,
\* and after the step that place holds 7, the rest of the frame unchanged.
C22_Step ==
  (source.name = "slot" /\ Dispatch(OpSetLocal)) =>
    LET slot == Unwrap(next_word(1)) + 1
        frame == Last(stack)
    IN /\ slot <= Len(frame)
       /\ frame[slot] = Number(5)
       /\ phase' = "running"
       /\ Last(stack') = [frame EXCEPT ![slot] = Number(7)]

C22_SlotIsPlace == [][C22_Step]_vars
\* C23: a SetGlobal that has its name and a value on the frame, executed
\* for a name that is not in the globals map, ends interpret with
\* RuntimeError and leaves the globals map unchanged; for a name in the
\* map it gives that global the value on top of the frame and leaves the
\* frames unchanged.
C23_Step ==
  (/\ Dispatch(OpSetGlobal)
   /\ constant_at(2) # None
   /\ Unwrap(constant_at(2)).t = "String"
   /\ Last(stack) # <<>>) =>
    LET variable_name == Unwrap(constant_at(2)).s
    IN IF variable_name \in DOMAIN globals
       THEN /\ phase' = "running"
            /\ globals' = [globals EXCEPT ![variable_name] = Last(Last(stack))]
            /\ stack' = stack
       ELSE /\ phase' = "done"
            /\ result' = "RuntimeError"
            /\ globals' = globals

C23_SetGlobal == [][C23_Step]_vars
\* C24: `let _ = side();` at the top level, in a block and in a function
\* body compiles without an error, calls side exactly once (side prints x)
\* and binds nothing: the globals map never contains the name `_`, and in
\* `{ let _ = 1; let a = 5; a = 7; }` the local a has the slot 0, the sink
\* having taken no entry of the local table.
C24_Sink ==
  /\ source.name = "sink" =>
       /\ errors = <<>>
       /\ Outcome("Ok", <<"x">>)
       /\ "_" \notin DOMAIN globals
  /\ (/\ source.name = "slot"
      /\ source.args[1] = <<"let", "_", "=", "1", ";">>
      /\ Dispatch(OpSetLocal)) => next_word(1) = Some(0)

\* the opcodes of the arithmetic operators and of the order comparisons
ArithmeticOps == {OpAdd, OpMultiply, OpDivide, OpRem}

ComparisonOps == {OpGreaterEqual, OpGreater, OpLessEqual, OpLess}

\* run is about to dispatch one of these opcodes with two values on the frame
DispatchBinary(ops) ==
  /\ \E op \in ops : Dispatch(op)
  /\ Len(Last(stack)) >= 2

\* the frame without its topmost count values
Below(count) == SubSeq(Last(stack), 1, Len(Last(stack)) - count)

\* the step ends interpret with RuntimeError, count values popped
EndsInError(count) ==
  /\ phase' = "done"
  /\ result' = "RuntimeError"
  /\ Last(stack') = Below(count)

\* Add, Multiply, Divide and Rem pop right, then left, and end with
\* RuntimeError at the first that is not a number; for two numbers they
\* push one number.  Negate does the same with its one operand.
ArithmeticStep ==
  /\ DispatchBinary(ArithmeticOps) =>
       LET frame == Last(stack)
       IN IF frame[Len(frame)].t # "Number" THEN EndsInError(1)
          ELSE IF frame[Len(frame) - 1].t # "Number" THEN EndsInError(2)
          ELSE /\ phase' = "running"
               /\ Len(Last(stack')) = Len(frame) - 1
               /\ Front(Last(stack')) = Below(2)
               /\ Last(Last(stack')).t = "Number"
  /\ (Dispatch(OpNegate) /\ Last(stack) # <<>>) =>
       IF Last(Last(stack)).t # "Number" THEN EndsInError(1)
       ELSE /\ phase' = "running"
            /\ Front(Last(stack')) = Below(1)
            /\ Last(Last(stack')).t = "Number"

\* C25 as stated: arithmetic as above, and an order comparison of two
\* values of different variants, or of functions, ends with RuntimeError;
\* any other comparison pops two values and pushes one.
C25_OriginalStep ==
  /\ ArithmeticStep
  /\ DispatchBinary(ComparisonOps) =>
       LET frame == Last(stack)
           left == frame[Len(frame) - 1]
           right == frame[Len(frame)]
       IN IF left.t # right.t \/ left.t = "Function"
          THEN phase' = "done" /\ result' = "RuntimeError"
          ELSE phase' = "running" /\ Len(Last(stack')) = Len(frame) - 1

C25_Original == [][C25_OriginalStep]_vars

\* the place of a value of the programs on operand types in the order of
\* values: by variant, Nil < Boolean < Number < String < Function, then
\* false < true and 0 < 1
Place(v) ==
  CASE v.t = "Nil" -> 0
    [] v.t = "Boolean" -> (IF v.b THEN 2 ELSE 1)
    [] v.t = "Number" -> 3 + v.n
    [] v.t = "String" -> 5
    [] v.t = "Function" -> 6

\* what the comparison of an opcode is for two places
Compared(op, l, r) ==
  CASE op = OpGreaterEqual -> l >= r
    [] op = OpGreater -> l > r
    [] op = OpLessEqual -> l <= r
    [] op = OpLess -> l < r

\* C25: Add, Multiply, Divide, Rem and Negate end with RuntimeError unless
\* every operand is a number, and else pop their operands (right first,
\* then left) and push one number.  Greater, GreaterEqual, Less and
\* LessEqual never end with RuntimeError for the types of their operands:
\* they pop two values and push the Boolean of the comparison, in which
\* values of different variants are ordered Nil < Boolean < Number <
\* String < Function and a function is equal to itself.
C25_Step ==
  /\ ArithmeticStep
  /\ DispatchBinary(ComparisonOps) =>
       LET frame == Last(stack)
           left == frame[Len(frame) - 1]
           right == frame[Len(frame)]
       IN /\ phase' = "running"
          /\ Len(Last(stack')) = Len(frame) - 1
          /\ Front(Last(stack')) = Below(2)
          /\ Last(Last(stack')).t = "Boolean"
          /\ source.name = "mixed" =>
               Last(Last(stack')).b
                 = Compared(OpCodeFrom(code[current.ip + 1]),
                            Place(left), Place(right))

C25_TypeMismatch == [][C25_Step]_vars

C25_Witness ==
  /\ source.name = "mixed"
  /\ source.args = << <<"nil">>, "<", <<"1">> >>
  /\ phase = "done"
  /\ result = "Ok"
  /\ stdout = <<"true">>
\* the number of values the opcode about to be dispatched needs on the
\* current frame, for the opcodes that need any (Pop and Return aside);
\* SetLocal needs its slot to be in the frame, Call its arguments
Needs ==
  LET op == OpCodeFrom(code[current.ip + 1])
  IN CASE op \in {OpNegate, OpNot, OpDefGlobal, OpSetGlobal, OpJumpIfFalse} -> 1
       [] op \in {OpAdd, OpMultiply, OpDivide, OpRem, OpConcat, OpEqual,
                  OpNotEqual, OpGreaterEqual, OpGreater, OpLessEqual, OpLess} -> 2
       [] op = OpSetLocal ->
            (IF next_word(1) = None THEN 1 ELSE Max({1, Unwrap(next_word(1)) + 1}))
       [] op = OpCall ->
            (IF constant_at(4) = None \/ Unwrap(constant_at(4)).t # "Number"
             THEN 0 ELSE as_u128(Unwrap(constant_at(4))))
       [] OTHER -> 0

\* C26: when the opcode about to be dispatched needs more values than the
\* current frame holds, the step ends interpret with RuntimeError.
C26_Step ==
  (/\ phase = "running"
   /\ current.ip < chunk_size(code)
   /\ stack # <<>>
   /\ Needs > Len(Last(stack))) =>
    phase' = "done" /\ result' = "RuntimeError"

C26_Underflow == [][C26_Step]_vars
\* C27: where a call of f resolves to the registered function f (at the
\* top level, in a block and in a function body for a top-level f, in the
\* body of g for an f declared there), a read of f at the same place is
\* compiled to a constant holding that function: no GetGlobal is ever
\* dispatched, and print(f) prints the function.
C27_ReadResolves ==
  source.name = "read_function" =>
    /\ errors = <<>>
    /\ ~Dispatch(OpGetGlobal)
    /\ Outcome("Ok", <<"f/0">>)
\* C28: a `fun` declaration is a compile error exactly when its name is
\* that of a native or a function of the name was declared before in the
\* same scope; a declaration that shadows an outer function, one nested in
\* another function, and the helpers of one name nested in two different
\* top-level functions are accepted, and the program runs.
C28_FunCollision ==
  (source.name = "fun" /\ phase # "start") =>
    IF source.args[1] \in {"native", "same_scope", "same_body"}
    THEN /\ \E i \in 1..Len(errors) : errors[i] = "Function already exists"
         /\ phase = "done"
         /\ result = "CompileError"
    ELSE /\ errors = <<>>
         /\ phase = "done" => result = "Ok"
\* the number of operand words that follow an opcode in a code chunk
OperandWords(op) ==
  CASE op \in {OpConstant, OpJump, OpJumpIfFalse, OpGetLocal, OpSetLocal} -> 1
    [] op \in {OpLoop, OpDefGlobal, OpSetGlobal, OpGetGlobal, OpClearScope,
               OpMakeClosure, OpGetCaptured, OpSetCaptured} -> 2
    [] op = OpCall -> 6
    [] OTHER -> 0

\* the code of f holds, at or after the opcode at ip, a Jump or JumpIfFalse
\* whose operand word no patch_jump has written
RECURSIVE Unpatched(_, _)
Unpatched(f, ip) ==
  IF ip >= Len(f.codes) THEN FALSE
  ELSE LET op == OpCodeFrom(f.codes[ip + 1])
       IN \/ /\ op \in {OpJump, OpJumpIfFalse}
             /\ \A p \in f.patched : p[1] # ip + 1
          \/ Unpatched(f, ip + 1 + OperandWords(op))

\* C29: once the compiler has returned without an error, no function of
\* the function table, no loop of the loop table and no function that run
\* executes (the main function among them) holds a Jump or JumpIfFalse
\* whose operand is still the placeholder add_jump wrote.
C29_JumpsPatched ==
  (phase # "start" /\ errors = <<>>) =>
    /\ \A i \in 1..Len(functions) : ~Unpatched(functions[i][1], 0)
    /\ \A name \in DOMAIN loops : ~Unpatched(loops[name], 0)
    /\ \A i \in 1..Len(calls) : ~Unpatched(calls[i].function, 0)
\* C30: in every reachable state the value stack holds at least one frame.
C30_AlwaysAFrame == Len(stack) >= 1
\* C31: an interpret call that returns CompileError leaves the globals,
\* the value stack, the function table and the loop table as they were
\* before the call; after the line `fun f() { } while false { } let = 1;`
\* was rejected, the line `fun f() { }` is accepted.
C31_Step ==
  /\ (phase = "start" /\ result' = "CompileError") =>
       UNCHANGED <<globals, stack, functions, loops>>
  /\ (source.name = "repl" /\ source.args = <<"rejected", 2>>
      /\ phase' = "done") => result' = "Ok"

C31_CompileErrorLeavesVM == [][C31_Step]_vars
\* C32: the compiler returns for every source text, also for one that
\* ends inside a parameter list, an argument list or a block: no interpret
\* call is left inside a parsing loop that can no longer exit.
C32_CompileTerminates == phase # "compiling"

\* C33: closures made from one nested function by different calls of the
\* outer function are independent: with c1 made with the captured value v1
\* and then c2 with v2, a call of c1 yields v1 and a call of c2 yields v2.
C33_IndependentClosures ==
  source.name = "closures" =>
    Outcome("Ok",
            <<Shown[source.args[IF source.args[1] = "first" THEN 2 ELSE 3]]
                \o "235", "\n">>)

\* the opcodes of a function, operand words left out
RECURSIVE Opcodes(_, _)
Opcodes(codes, i) ==
  IF i > Len(codes) THEN <<>>
  ELSE <<codes[i]>> \o Opcodes(codes, i + 1 + OperandWords(codes[i]))

\* C34: binary minus is compiled as the right-hand term with its first
\* factor negated, followed by Add, and the value is that of subtraction
\* with the usual precedence and left associativity: x - y is x-y,
\* x - y - z is (x-y)-z and x - y * z is x-(y*z).
C34_Minus ==
  /\ (source.name = "binary" /\ source.args[2] = "-") =>
       /\ Outcome("Ok", <<into_string(Number(source.args[1] - source.args[3]))>>)
       /\ (phase = "running" /\ Len(calls) = 1) =>
            LET ops == Opcodes(current.function.codes, 1)
                x == IF source.args[1] < 0 THEN <<OpConstant, OpNegate>>
                     ELSE <<OpConstant>>
                y == IF source.args[3] < 0 THEN <<OpConstant, OpNegate>>
                     ELSE <<OpConstant>>
            IN IsPrefix(x \o y \o <<OpNegate, OpAdd>>, ops)
  /\ source.name = "minus" =>
       LET x == source.args[2]
           y == source.args[3]
           z == source.args[4]
           first == IF x < 0 THEN <<OpConstant, OpNegate>> ELSE <<OpConstant>>
       IN IF source.args[1] = "-"
          THEN /\ Outcome("Ok", <<into_string(Number((x - y) - z))>>)
               /\ (phase = "running" /\ Len(calls) = 1) =>
                    IsPrefix(first \o <<OpConstant, OpNegate, OpAdd,
                                        OpConstant, OpNegate, OpAdd>>,
                             Opcodes(current.function.codes, 1))
          ELSE /\ Outcome("Ok", <<into_string(Number(x - (y * z)))>>)
               /\ (phase = "running" /\ Len(calls) = 1) =>
                    IsPrefix(first \o <<OpConstant, OpNegate, OpConstant,
                                        OpMultiply, OpAdd>>,
                             Opcodes(current.function.codes, 1))

C34_Witness ==
  /\ source.name = "minus"
  /\ source.args = <<"*", 1, 2, 2>>
  /\ phase = "done"
  /\ result = "Ok"
  /\ stdout = <<"-3">>

\* C35: the operand count OpCode::params declares for an opcode is the
\* number of words the VM consumes after it, Jump and JumpIfFalse being
\* declared with one operand: after an opcode the invocation goes on
\* directly behind the declared operand words, or, after a jump, at the
\* displacement from there; and the VM executes opcodes only at offsets at
\* which the walk of the disassembler over the code decodes an opcode.
C35_Step ==
  (phase = "running" /\ current.ip < Len(code)) =>
    LET op == OpCodeFrom(code[current.ip + 1])
        depth == Len(calls)
        behind == current.ip + 1 + op_params(op)
    IN /\ op \in {OpJump, OpJumpIfFalse} => op_params(op) = 1
       /\ current.ip \in fmt_offsets(code, 0)
       /\ (phase' = "running" /\ Len(calls') >= depth) =>
            \/ calls'[depth].ip = behind
            \/ /\ op \in {OpJump, OpJumpIfFalse}
               /\ calls'[depth].ip = behind + code[behind]

C35_ParamsAgree == [][C35_Step]_vars

\* the items added to and set in the chunks of a state
Items == {Nil, Number(0), String("a")}

Words == {0, OpInvalid}

\* add and set on a chunk, for the given items
StableChunk(storage, items) ==
  LET addresses == 0..(chunk_size(storage) - 1)
  IN \A item \in items :
       /\ LET added == chunk_add(storage, item)
              address == chunk_add_address(storage, item)
          IN /\ address = chunk_size(storage)
             /\ chunk_size(added) = chunk_size(storage) + 1
             /\ chunk_get(added, address) = Some(item)
             /\ \A j \in addresses :
                  chunk_get(added, j) = chunk_get(storage, j)
       /\ \A i \in addresses :
            LET set == chunk_set(storage, i, item)
            IN /\ chunk_size(set) = chunk_size(storage)
               /\ chunk_get(set, i) = Some(item)
               /\ \A j \in addresses \ {i} :
                    chunk_get(set, j) = chunk_get(storage, j)

\* C36: chunk indices are stable.  add returns the address at which the
\* item is stored, the previous size; set at an address below the size
\* replaces the item there and leaves the size and the other items as they
\* are; and the constants of the VM are only appended to: over the
\* interpret calls of a session an address of the pool denotes the same
\* value (a function keeps name, arity and code, the captured values are
\* those of its last MakeClosure).
C36_Step ==
  /\ StableChunk(constants, Items)
  /\ phase = "running" => StableChunk(code, Words)
  /\ chunk_size(constants') >= chunk_size(constants)
  /\ \A address \in 0..(chunk_size(constants) - 1) :
       LET before == Unwrap(chunk_get(constants, address))
           after == Unwrap(chunk_get(constants', address))
       IN \/ after = before
          \/ /\ Dispatch(OpMakeClosure)
             /\ before.t = "Function"
             /\ after.t = "Function"
             /\ same_function(before.f, after.f)
             /\ value_eq(before, after)

====
